---- MODULE Spec2Model ----
(***************************************************************************)
(* Model of searx/locales.py: the locale negotiation functions             *)
(* get_engine_locale, match_locale and build_engine_locales, together with *)
(* the part of python-babel they call (Locale.parse, parse_locale,         *)
(* get_official_languages, the "territory_languages" and "likely_subtags"  *)
(* globals).                                                               *)
(*                                                                         *)
(* A Python str is a sequence of one-character strings, None is the        *)
(* one-element sequence NoneVal, and a call that raises returns the        *)
(* one-element sequence naming the exception (a real str holds only        *)
(* one-character elements, so neither can be mistaken for a str).          *)
(***************************************************************************)
EXTENDS Integers, Sequences, FiniteSets, TLC

VARIABLES op, pc, catalog_order, searxng_locale, engine_locales,
          locale_tag_list, default, result, built, self, calls, args

vars == <<op, pc, catalog_order, searxng_locale, engine_locales,
          locale_tag_list, default, result, built, self, calls, args>>

----------------------------------------------------------------------------
(* Python values *)

NoneVal == <<"None">>

ValueError == <<"ValueError">>

IsRaise(v) == v = ValueError

EmptyDict == [k \in {} |-> NoneVal]

\* dict.get(key): the value, or None
Get(d, key) == IF key \in DOMAIN d THEN d[key] ELSE NoneVal

Range(f) == {f[x] : x \in DOMAIN f}

----------------------------------------------------------------------------
(* Python str operations, on sequences of characters *)

LOWER == <<"a","b","c","d","e","f","g","h","i","j","k","l","m",
           "n","o","p","q","r","s","t","u","v","w","x","y","z">>

UPPER == <<"A","B","C","D","E","F","G","H","I","J","K","L","M",
           "N","O","P","Q","R","S","T","U","V","W","X","Y","Z">>

DIGITS == <<"0","1","2","3","4","5","6","7","8","9">>

\* the characters of the model in code-point order
CODEPOINTS == <<"-", ".">> \o DIGITS \o <<"@">> \o UPPER \o <<"_">> \o LOWER

Chars == {CODEPOINTS[i] : i \in 1..Len(CODEPOINTS)}

OrdTable == [c \in Chars |-> CHOOSE i \in 1..Len(CODEPOINTS) : CODEPOINTS[i] = c]

Ord(c) == OrdTable[c]

Letters == {LOWER[i] : i \in 1..Len(LOWER)} \cup {UPPER[i] : i \in 1..Len(UPPER)}

IsLetter(c) == c \in Letters

IsDigitChar(c) == c \in {DIGITS[i] : i \in 1..Len(DIGITS)}

LowerTable ==
    [c \in Chars |-> IF \E i \in 1..Len(UPPER) : c = UPPER[i]
                     THEN LOWER[CHOOSE i \in 1..Len(UPPER) : c = UPPER[i]]
                     ELSE c]

UpperTable ==
    [c \in Chars |-> IF \E i \in 1..Len(LOWER) : c = LOWER[i]
                     THEN UPPER[CHOOSE i \in 1..Len(LOWER) : c = LOWER[i]]
                     ELSE c]

LowerChar(c) == LowerTable[c]

UpperChar(c) == UpperTable[c]

\* str.lower()
Lower(s) == [i \in 1..Len(s) |-> LowerChar(s[i])]

\* str.upper()
Upper(s) == [i \in 1..Len(s) |-> UpperChar(s[i])]

\* str.title() of a word of letters
Title(s) == [i \in 1..Len(s) |-> IF i = 1 THEN UpperChar(s[i]) ELSE LowerChar(s[i])]

\* str.isalpha(): not empty and letters only
IsAlpha(s) == Len(s) > 0 /\ \A i \in 1..Len(s) : IsLetter(s[i])

\* str.isdigit()
IsDigit(s) == Len(s) > 0 /\ \A i \in 1..Len(s) : IsDigitChar(s[i])

\* c in s
Contains(s, c) == \E i \in 1..Len(s) : s[i] = c

\* s.split(c, 1)[0]
Before(s, c) ==
    IF Contains(s, c)
    THEN SubSeq(s, 1, (CHOOSE i \in 1..Len(s) : s[i] = c /\ \A j \in 1..(i-1) : s[j] # c) - 1)
    ELSE s

\* s.split(c)
RECURSIVE Split(_, _)
Split(s, c) ==
    IF Contains(s, c)
    THEN <<Before(s, c)>> \o Split(SubSeq(s, Len(Before(s, c)) + 2, Len(s)), c)
    ELSE <<s>>

\* a < b for two str (code-point order)
RECURSIVE StrLess(_, _)
StrLess(a, b) ==
    IF Len(b) = 0 THEN FALSE
    ELSE IF Len(a) = 0 THEN TRUE
    ELSE IF a[1] # b[1] THEN Ord(a[1]) < Ord(b[1])
    ELSE StrLess(Tail(a), Tail(b))

\* sep.join(parts)
RECURSIVE Join(_, _)
Join(parts, sep) ==
    IF Len(parts) = 0 THEN <<>>
    ELSE IF Len(parts) = 1 THEN parts[1]
    ELSE parts[1] \o sep \o Join(Tail(parts), sep)

\* s.replace(a, b) for characters a, b
Replace(s, a, b) == [i \in 1..Len(s) |-> IF s[i] = a THEN b ELSE s[i]]

HYPHEN == <<"-">>

UNDERSCORE == <<"_">>

----------------------------------------------------------------------------
(* Subtags and tags used by the catalog and by the inputs *)

ca == <<"c","a">>
en == <<"e","n">>
es == <<"e","s">>
fr == <<"f","r">>
nl == <<"n","l">>
oc == <<"o","c">>
zh == <<"z","h">>
xx == <<"x","x">>

Hans == <<"H","a","n","s">>
Hant == <<"H","a","n","t">>
Latn == <<"L","a","t","n">>

AD == <<"A","D">>
BE == <<"B","E">>
BL == <<"B","L">>
CA == <<"C","A">>
CN == <<"C","N">>
ES == <<"E","S">>
FR == <<"F","R">>
MF == <<"M","F">>
NL == <<"N","L">>
TW == <<"T","W">>
US == <<"U","S">>
XX == <<"X","X">>
World == <<"0","0","1">>

\* "a-b", "a_b"
Hy(a, b) == a \o HYPHEN \o b

Us(a, b) == a \o UNDERSCORE \o b

----------------------------------------------------------------------------
(* The catalog: the part of babel's CLDR data the inputs reach *)

\* babel.localedata.exists: the locale identifiers with locale data; oc stands
\* for a language of ADDITIONAL_TRANSLATIONS that the installed catalog knows
LOCALE_IDENTIFIERS ==
    { ca, Us(ca, AD), Us(ca, ES),
      en, Us(en, World), Us(en, BE), Us(en, CA), Us(en, NL), Us(en, US),
      es, Us(es, ES), Us(es, US),
      fr, Us(fr, BE), Us(fr, BL), Us(fr, CA), Us(fr, FR), Us(fr, MF),
      nl, Us(nl, BE), Us(nl, NL),
      oc,
      zh, Us(zh, Hans), Us(Us(zh, Hans), CN), Us(zh, Hant), Us(Us(zh, Hant), TW) }

\* babel.core.get_global('likely_subtags')
LIKELY_SUBTAGS ==
    { <<ca, Us(Us(ca, Latn), ES)>>,
      <<en, Us(Us(en, Latn), US)>>,
      <<es, Us(Us(es, Latn), ES)>>,
      <<fr, Us(Us(fr, Latn), FR)>>,
      <<nl, Us(Us(nl, Latn), NL)>>,
      <<zh, Us(Us(zh, Hans), CN)>>,
      <<Us(zh, TW), Us(Us(zh, Hant), TW)>>,
      <<Us(zh, Hant), Us(Us(zh, Hant), TW)>> }

\* likely_subtags.get(key)
LikelySubtag(key) ==
    IF \E e \in LIKELY_SUBTAGS : e[1] = key
    THEN (CHOOSE e \in LIKELY_SUBTAGS : e[1] = key)[2]
    ELSE NoneVal

\* babel.core.get_global('territory_languages'): per territory and language
\* the population share (percent) and the official status ("None": none)
TERRITORY_LANGUAGES ==
    { [territory |-> AD, language |-> ca, population_percent |-> 51, official_status |-> "official"],
      [territory |-> BE, language |-> nl, population_percent |-> 55, official_status |-> "official"],
      [territory |-> BE, language |-> fr, population_percent |-> 38, official_status |-> "official"],
      [territory |-> BL, language |-> fr, population_percent |-> 100, official_status |-> "official"],
      [territory |-> CA, language |-> en, population_percent |-> 86, official_status |-> "official"],
      [territory |-> CA, language |-> fr, population_percent |-> 32, official_status |-> "official"],
      [territory |-> CN, language |-> zh, population_percent |-> 90, official_status |-> "official"],
      [territory |-> ES, language |-> es, population_percent |-> 99, official_status |-> "official"],
      [territory |-> ES, language |-> ca, population_percent |-> 16, official_status |-> "official_regional"],
      [territory |-> FR, language |-> fr, population_percent |-> 100, official_status |-> "official"],
      [territory |-> MF, language |-> fr, population_percent |-> 100, official_status |-> "official"],
      [territory |-> NL, language |-> nl, population_percent |-> 98, official_status |-> "official"],
      [territory |-> NL, language |-> en, population_percent |-> 90, official_status |-> "None"],
      [territory |-> TW, language |-> Us(zh, Hant), population_percent |-> 95, official_status |-> "official"],
      [territory |-> US, language |-> en, population_percent |-> 96, official_status |-> "de_facto_official"],
      [territory |-> US, language |-> es, population_percent |-> 10, official_status |-> "None"] }

\* the keys of territory_languages in ascending order
TERRITORIES == <<AD, BE, BL, CA, CN, ES, FR, MF, NL, TW, US>>

Reverse(s) == [i \in 1..Len(s) |-> s[Len(s) + 1 - i]]

\* the orders in which territory_languages.items() may iterate: the dict keeps
\* the insertion order of the data file
CatalogOrders == {TERRITORIES, Reverse(TERRITORIES)}

\* territory_languages.get(territory, {}) as the set of its entries
Langs(territory) == {e \in TERRITORY_LANGUAGES : e.territory = territory}

\* langs.get(language, {}): the entry as a set of at most one element
LangInfo(territory, language) == {e \in Langs(territory) : e.language = language}

----------------------------------------------------------------------------
(* babel.core *)

\* a babel.Locale, or the exception raised instead of constructing one
Locale(language, territory, script, variant) ==
    [exc |-> "", language |-> language, territory |-> territory,
     script |-> script, variant |-> variant]

Raised(exc) ==
    [exc |-> exc, language |-> NoneVal, territory |-> NoneVal,
     script |-> NoneVal, variant |-> NoneVal]

\* filter(None, parts): None and '' are dropped
FilterNone(parts) == SelectSeq(parts, LAMBDA p : p # NoneVal /\ p # <<>>)

\* babel.core.get_locale_identifier((lang, territory, script, variant))
get_locale_identifier(l) ==
    Join(FilterNone(<<l.language, l.script, l.territory, l.variant>>), UNDERSCORE)

\* babel.core.parse_locale, its last step: parts left over are a ValueError
ParseEnd(lang, territory, script, variant, parts) ==
    IF Len(parts) > 0 THEN Raised("ValueError")
    ELSE Locale(lang, territory, script, variant)

\* ... the variant: parts[0] is tested and parts.pop() takes the last part
ParseVariant(lang, territory, script, parts) ==
    IF /\ Len(parts) > 0
       /\ \/ Len(parts[1]) = 4 /\ IsDigitChar(parts[1][1])
          \/ Len(parts[1]) >= 5 /\ IsLetter(parts[1][1])
    THEN ParseEnd(lang, territory, script, parts[Len(parts)], SubSeq(parts, 1, Len(parts) - 1))
    ELSE ParseEnd(lang, territory, script, NoneVal, parts)

\* ... the territory: two letters, or three digits
ParseTerritory(lang, script, parts) ==
    IF Len(parts) > 0 /\ Len(parts[1]) = 2 /\ IsAlpha(parts[1])
    THEN ParseVariant(lang, Upper(parts[1]), script, Tail(parts))
    ELSE IF Len(parts) > 0 /\ Len(parts[1]) = 3 /\ IsDigit(parts[1])
    THEN ParseVariant(lang, parts[1], script, Tail(parts))
    ELSE ParseVariant(lang, NoneVal, script, parts)

\* ... the script: four letters
ParseScript(lang, parts) ==
    IF Len(parts) > 0 /\ Len(parts[1]) = 4 /\ IsAlpha(parts[1])
    THEN ParseTerritory(lang, Title(parts[1]), Tail(parts))
    ELSE ParseTerritory(lang, NoneVal, parts)

\* ... the language: the first part, lowercased, must be letters
ParseLanguage(parts) ==
    IF ~IsAlpha(Lower(parts[1])) THEN Raised("ValueError")
    ELSE ParseScript(Lower(parts[1]), Tail(parts))

\* babel.core.parse_locale(identifier, sep): the parts, or ValueError
parse_locale(identifier, sep) ==
    ParseLanguage(Split(Before(Before(identifier, "."), "@"), sep))

\* Locale.__init__: UnknownLocaleError unless the identifier has locale data
LocaleInit(language, territory, script, variant) ==
    IF get_locale_identifier(Locale(language, territory, script, variant)) \in LOCALE_IDENTIFIERS
    THEN Locale(language, territory, script, variant)
    ELSE Raised("UnknownLocaleError")

\* the first locale if it was loaded, else the second
FirstLoaded(first, second) == IF first.exc = "" THEN first ELSE second

\* Locale.parse._try_load_reducing: the parts, then language and territory alone
TryLoadReducing(language, territory, script, variant) ==
    FirstLoaded(LocaleInit(language, territory, script, variant),
                LocaleInit(language, territory, NoneVal, NoneVal))

\* Locale.parse, first match: the likely subtag of the whole identifier
TryLoadParts(p) == TryLoadReducing(p.language, p.territory, p.script, p.variant)

TryLoadLikely(likely) ==
    IF likely = NoneVal THEN Raised("UnknownLocaleError")
    ELSE TryLoadParts(parse_locale(likely, "_"))

\* Locale.parse, second match: the likely subtag of the language, with the
\* territory of the identifier
TryLoadWithTerritory(p, territory) ==
    TryLoadReducing(p.language, territory, p.script, p.variant)

TryLoadLanguage(likely, territory) ==
    IF likely = NoneVal THEN Raised("UnknownLocaleError")
    ELSE TryLoadWithTerritory(parse_locale(likely, "_"), territory)

ResolveLikelySubtags(language, territory, script, variant) ==
    FirstLoaded(
        TryLoadLikely(LikelySubtag(get_locale_identifier(Locale(language, territory, script, variant)))),
        TryLoadLanguage(LikelySubtag(language), territory))

\* Locale.parse after parse_locale. No alias of language_aliases,
\* territory_aliases, script_aliases concerns the subtags of the catalog above.
LocaleParseParts(parts) ==
    IF parts.exc # "" THEN parts
    ELSE FirstLoaded(
            LocaleInit(parts.language, parts.territory, parts.script, parts.variant),
            ResolveLikelySubtags(
                parts.language,
                IF parts.territory = <<"Z","Z">> THEN NoneVal ELSE parts.territory,
                IF parts.script = <<"Z","z","z","z">> THEN NoneVal ELSE parts.script,
                parts.variant))

\* Locale.parse(identifier, sep), resolve_likely_subtags=True
LocaleParse(identifier, sep) == LocaleParseParts(parse_locale(identifier, sep))

\* pairs.sort(reverse=True) on (population_percent, language) pairs
PairBefore(a, b) ==
    \/ a.population_percent > b.population_percent
    \/ a.population_percent = b.population_percent /\ StrLess(b.language, a.language)

\* babel.languages.get_official_languages(territory, regional=False, de_facto=True)
get_official_languages(territory) ==
    LET allowed == {"official", "de_facto_official"}
        pairs == {e \in Langs(territory) : e.official_status \in allowed}
        rank(e) == Cardinality({o \in pairs : PairBefore(o, e)}) + 1
    IN  [p \in 1..Cardinality(pairs) |-> (CHOOSE e \in pairs : rank(e) = p).language]

----------------------------------------------------------------------------
(* searx/locales.py *)

ADDITIONAL_TRANSLATIONS == { <<"d","v">>, <<"o","c">>, <<"s","z","l">>, <<"p","a","p">> }

\* lines 165-167 with the language for a locale without a territory
RegionTagNoRaise(locale) ==
    IF locale.territory = NoneVal \/ locale.territory = <<>>
    THEN locale.language
    ELSE locale.language \o HYPHEN \o locale.territory

\* region_tag(locale): ValueError when the locale has no territory
region_tag(locale) ==
    IF locale.territory = NoneVal \/ locale.territory = <<>>
    THEN ValueError
    ELSE locale.language \o HYPHEN \o locale.territory

\* lines 174-177 with the territory appended
LanguageTagWithTerritory(locale) ==
    (IF locale.script # NoneVal /\ locale.script # <<>>
     THEN locale.language \o UNDERSCORE \o locale.script
     ELSE locale.language)
    \o (IF locale.territory # NoneVal THEN UNDERSCORE \o locale.territory ELSE <<>>)

\* language_tag(locale)
language_tag(locale) ==
    IF locale.script # NoneVal /\ locale.script # <<>>
    THEN locale.language \o UNDERSCORE \o locale.script
    ELSE locale.language

\* get_locale(locale_tag): the locale, None (exc "UnknownLocaleError") or a
\* ValueError that is not caught
get_locale(locale_tag) == LocaleParse(locale_tag, "-")

\* lines 291-297 without the second parse of lines 294-295
ParseWholeOnly(whole, requested) == whole

\* get_engine_locale, lines 291-297: the locale of the whole string, else of
\* its first '-' part; exc is "UnknownLocaleError" where the code returns
\* default and "ValueError" where the exception leaves the function
ParseFirstPart(whole, requested) ==
    IF whole.exc = "UnknownLocaleError"
    THEN LocaleParse(Split(requested, "-")[1], "_")
    ELSE whole

ParseRequested(requested) == ParseFirstPart(LocaleParse(requested, "-"), requested)

\* lines 299-303 with the script left out of the key
LanguageTagHitNoScript(locale, map) == Get(map, locale.language)

\* lines 299-303: the value of the key language_tag(locale), or None
LanguageTagHit(locale, map) == Get(map, language_tag(locale))

\* first value, in the order of keys, that the map holds; None if there is none
RECURSIVE FirstHit(_, _)
FirstHit(keys, map) ==
    IF Len(keys) = 0 THEN NoneVal
    ELSE IF Get(map, keys[1]) # NoneVal THEN map[keys[1]]
    ELSE FirstHit(Tail(keys), map)

\* lines 307-314 with the official languages taken from the last to the first
TerritoryHitLast(locale, map) ==
    IF locale.territory = NoneVal THEN NoneVal
    ELSE LET langs == Reverse(get_official_languages(locale.territory))
         IN  FirstHit([i \in 1..Len(langs) |-> langs[i] \o HYPHEN \o locale.territory], map)

\* lines 307-314: the official languages of the locale's territory
TerritoryHit(locale, map) ==
    IF locale.territory = NoneVal THEN NoneVal
    ELSE LET langs == get_official_languages(locale.territory)
         IN  FirstHit([i \in 1..Len(langs) |-> langs[i] \o HYPHEN \o locale.territory], map)

\* lines 325-329 looking up locale.language, without the script
TerrLangDictByLanguage(locale, order) ==
    LET official(t) == \E e \in LangInfo(t, locale.language) : e.official_status # "None"
        kept == SelectSeq(order, official)
    IN  [i \in 1..Len(kept) |->
            [territory |-> kept[i],
             population_percent |->
                 (CHOOSE e \in LangInfo(kept[i], locale.language) : TRUE).population_percent]]

\* lines 325-329: terr_lang_dict, as the list of its items in insertion order
terr_lang_dict(locale, order) ==
    LET official(t) == \E e \in LangInfo(t, language_tag(locale)) : e.official_status # "None"
        kept == SelectSeq(order, official)
    IN  [i \in 1..Len(kept) |->
            [territory |-> kept[i],
             population_percent |->
                 (CHOOSE e \in LangInfo(kept[i], language_tag(locale)) : TRUE).population_percent]]

\* lines 334-342 left out
SelfTerritoryHitMissing(locale, map, order) == NoneVal

\* lines 334-342: the territory named like the language ('en': 'US'), probed
\* only if terr_lang_dict holds it
SelfTerritoryHit(locale, map, order) ==
    LET territory == IF Upper(locale.language) = <<"E","N">> THEN US
                     ELSE Upper(locale.language)
        dict == terr_lang_dict(locale, order)
    IN  IF \E i \in 1..Len(dict) : dict[i].territory = territory
        THEN Get(map, locale.language \o HYPHEN \o territory)
        ELSE NoneVal

\* sorted(items, key=population_percent, reverse=True): a stable sort, items
\* of equal key keep their order
SortedByPopulation(items) ==
    LET rank(i) == Cardinality({j \in 1..Len(items) :
                        \/ items[j].population_percent > items[i].population_percent
                        \/ items[j].population_percent = items[i].population_percent /\ j < i}) + 1
    IN  [p \in 1..Len(items) |-> items[CHOOSE i \in 1..Len(items) : rank(i) = p]]

\* first key, in the order of keys, that the map holds; None if there is none
RECURSIVE FirstKey(_, _)
FirstKey(keys, map) ==
    IF Len(keys) = 0 THEN NoneVal
    ELSE IF Get(map, keys[1]) # NoneVal THEN keys[1]
    ELSE FirstKey(Tail(keys), map)

\* lines 360-368 returning the SearXNG tag it probed, not the engine's value
PopulationHitReturnsKey(locale, map, order) ==
    LET sorted == SortedByPopulation(terr_lang_dict(locale, order))
    IN  FirstKey([i \in 1..Len(sorted) |-> locale.language \o HYPHEN \o sorted[i].territory], map)

\* lines 360-368 giving up after the territory of the largest share
PopulationHitFirstOnly(locale, map, order) ==
    LET sorted == SortedByPopulation(terr_lang_dict(locale, order))
    IN  IF Len(sorted) = 0 THEN NoneVal
        ELSE Get(map, locale.language \o HYPHEN \o sorted[1].territory)

\* lines 360-368: the territories of terr_lang_dict by population share
PopulationHit(locale, map, order) ==
    LET sorted == SortedByPopulation(terr_lang_dict(locale, order))
    IN  FirstHit([i \in 1..Len(sorted) |-> locale.language \o HYPHEN \o sorted[i].territory], map)

\* a unless it is None, then b
Coalesce(a, b) == IF a # NoneVal THEN a ELSE b

\* lines 299-376 with the approximation by language tried before the one by
\* territory
NarrowLanguageFirst(locale, map, dflt, order) ==
    Coalesce(LanguageTagHit(locale, map),
    Coalesce(SelfTerritoryHit(locale, map, order),
    Coalesce(PopulationHit(locale, map, order),
    Coalesce(TerritoryHit(locale, map), dflt))))

\* lines 299-376 with the official languages of the territory tried before
\* the language tag
NarrowTerritoryFirst(locale, map, dflt, order) ==
    Coalesce(TerritoryHit(locale, map),
    Coalesce(LanguageTagHit(locale, map),
    Coalesce(SelfTerritoryHit(locale, map, order),
    Coalesce(PopulationHit(locale, map, order), dflt))))

\* lines 299-376 ending with None where the code returns default
NarrowReturnsNone(locale, map, dflt, order) ==
    Coalesce(LanguageTagHit(locale, map),
    Coalesce(TerritoryHit(locale, map),
    Coalesce(SelfTerritoryHit(locale, map, order),
             PopulationHit(locale, map, order))))

\* lines 299-376: the steps after the requested string is parsed
Narrow(locale, map, dflt, order) ==
    Coalesce(LanguageTagHit(locale, map),
    Coalesce(TerritoryHit(locale, map),
    Coalesce(SelfTerritoryHit(locale, map, order),
    Coalesce(PopulationHit(locale, map, order), dflt))))

\* lines 291-376: the outcome of the parse, then the steps
NarrowParsed(locale, map, dflt, order) ==
    IF locale.exc = "ValueError" THEN ValueError
    ELSE IF locale.exc = "UnknownLocaleError" THEN dflt
    ELSE Narrow(locale, map, dflt, order)

\* get_engine_locale without the direct hit of lines 284-289
GetEngineLocaleParseFirst(requested, map, dflt, order) ==
    NarrowParsed(ParseRequested(requested), map, dflt, order)

\* get_engine_locale with lines 284-289 returning the key that was found
GetEngineLocaleReturnsKey(requested, map, dflt, order) ==
    IF Get(map, requested) # NoneVal THEN requested
    ELSE NarrowParsed(ParseRequested(requested), map, dflt, order)

\* get_engine_locale(searxng_locale, engine_locales, default) against a
\* catalog iterating in the given order
get_engine_locale(requested, map, dflt, order) ==
    IF Get(map, requested) # NoneVal THEN map[requested]
    ELSE NarrowParsed(ParseRequested(requested), map, dflt, order)

\* lines 462-470 without the key language_tag(locale) of a tag with territory
BuildInsertRegionOnly(acc, tag, locale) ==
    IF acc.exc # "" THEN acc
    ELSE IF locale.exc = "ValueError" THEN [exc |-> "ValueError", map |-> EmptyDict]
    ELSE IF locale.exc = "UnknownLocaleError" THEN acc
    ELSE [exc |-> "",
          map |-> [k \in DOMAIN acc.map \cup
                         {IF locale.territory # NoneVal THEN region_tag(locale)
                          ELSE language_tag(locale)} |->
                      IF k \in DOMAIN acc.map THEN acc.map[k] ELSE tag]]

\* lines 462-470 with the tag itself for the key
BuildInsertRawKey(acc, tag, locale) ==
    IF acc.exc # "" THEN acc
    ELSE IF locale.exc = "ValueError" THEN [exc |-> "ValueError", map |-> EmptyDict]
    ELSE IF locale.exc = "UnknownLocaleError" THEN acc
    ELSE [exc |-> "",
          map |-> [k \in DOMAIN acc.map \cup {tag} |-> IF k = tag THEN tag ELSE acc.map[k]]]

\* lines 462-470 with a key that is already there left as it is
BuildInsertKeepFirst(acc, tag, locale) ==
    IF acc.exc # "" THEN acc
    ELSE IF locale.exc = "ValueError" THEN [exc |-> "ValueError", map |-> EmptyDict]
    ELSE IF locale.exc = "UnknownLocaleError" THEN acc
    ELSE [exc |-> "",
          map |-> [k \in DOMAIN acc.map \cup
                         (IF locale.territory # NoneVal
                          THEN {region_tag(locale)} \cup
                               (IF locale.script # NoneVal THEN {language_tag(locale)} ELSE {})
                          ELSE {language_tag(locale)}) |->
                      IF k \in DOMAIN acc.map THEN acc.map[k] ELSE tag]]

\* build_engine_locales, lines 462-470: the dict after the tag's locale
BuildInsert(acc, tag, locale) ==
    IF acc.exc # "" THEN acc
    ELSE IF locale.exc = "ValueError" THEN [exc |-> "ValueError", map |-> EmptyDict]
    ELSE IF locale.exc = "UnknownLocaleError" THEN acc
    ELSE IF locale.territory # NoneVal
    THEN [exc |-> "",
          map |-> [k \in DOMAIN acc.map \cup
                         ({region_tag(locale)} \cup
                          IF locale.script # NoneVal THEN {language_tag(locale)} ELSE {}) |->
                      IF k = region_tag(locale) \/ (locale.script # NoneVal /\ k = language_tag(locale))
                      THEN tag ELSE acc.map[k]]]
    ELSE [exc |-> "",
          map |-> [k \in DOMAIN acc.map \cup {language_tag(locale)} |->
                      IF k = language_tag(locale) THEN tag ELSE acc.map[k]]]

\* build_engine_locales, lines 460-470: the dict after one more tag
BuildStep(acc, tag) == BuildInsert(acc, tag, get_locale(tag))

\* build_engine_locales(tag_list): the dict, or the exception that leaves it
RECURSIVE build_engine_locales(_)
build_engine_locales(tag_list) ==
    IF Len(tag_list) = 0 THEN [exc |-> "", map |-> EmptyDict]
    ELSE BuildStep(build_engine_locales(SubSeq(tag_list, 1, Len(tag_list) - 1)),
                   tag_list[Len(tag_list)])

\* lines 417-421 with no tag dropped
CleanTagListKeepsAll(tag_list) == tag_list

\* match_locale, lines 417-421: the tag list without 'all', 'auto' and the
\* additional translations
CleanTagList(tag_list) ==
    SelectSeq(tag_list, LAMBDA tag : /\ tag # <<"a","l","l">>
                                     /\ tag # <<"a","u","t","o">>
                                     /\ tag \notin ADDITIONAL_TRANSLATIONS)

\* lines 424-425 with get_engine_locale's own default, None, for the fallback
MatchBuiltNoFallback(normalized, locales, fallback, order) ==
    IF locales.exc # "" THEN ValueError
    ELSE get_engine_locale(normalized, locales.map, NoneVal, order)

\* match_locale, lines 424-425
MatchBuilt(normalized, locales, fallback, order) ==
    IF locales.exc # "" THEN ValueError
    ELSE get_engine_locale(normalized, locales.map, fallback, order)

\* match_locale, lines 406-425
MatchParsed(locale, tag_list, fallback, order) ==
    IF locale.exc = "ValueError" THEN ValueError
    ELSE IF locale.exc = "UnknownLocaleError" THEN fallback
    ELSE MatchBuilt(IF locale.territory # NoneVal THEN region_tag(locale) ELSE language_tag(locale),
                    build_engine_locales(CleanTagList(tag_list)), fallback, order)

\* lines 402-407 with the test of line 402 true of None alone
MatchLocaleNoneOnly(requested, tag_list, fallback, order) ==
    IF requested = NoneVal THEN fallback
    ELSE MatchParsed(get_locale(requested), tag_list, fallback, order)

\* match_locale(searxng_locale, locale_tag_list, fallback)
match_locale(requested, tag_list, fallback, order) ==
    IF requested = <<>> \/ requested = NoneVal THEN fallback
    ELSE MatchParsed(get_locale(requested), tag_list, fallback, order)

----------------------------------------------------------------------------
(* The inputs of the calls *)

\* largest number of keys of an engine_locales dict written by hand
MaxKeys == 2

\* largest length of a locale tag list
MaxTags == 3

\* the requested strings
Requests ==
    { <<>>, zh, Hy(zh, CN), Hy(zh, TW), Hy(zh, Hans), Hy(zh, Hant), Us(zh, Hant),
      fr, Hy(fr, BE), Hy(<<"F","R">>, <<"b","e">>), fr \o HYPHEN,
      nl, Hy(nl, BE), en, Hy(en, CA), Hy(en, World), Hy(en, XX), xx,
      ca, Hy(ca, ES), Hy(en, BE), Hy(es, US) }

\* the keys of the dicts written by hand
Keys ==
    { zh, Hy(zh, CN), Hy(zh, TW), Us(zh, Hans), Us(zh, Hant),
      fr, Hy(fr, FR), Hy(fr, BE), Hy(fr, MF), Hy(fr, BL),
      Hy(nl, BE), Hy(en, US), Hy(en, NL), Hy(ca, CA), Hy(ca, ES) }

\* the engine's own name of a locale, as in the docstring ('fr-BE': 'fr_BE')
EngineTag(key) == Replace(key, "-", "_")

HandMaps ==
    { [k \in K |-> EngineTag(k)] : K \in {K \in SUBSET Keys : Cardinality(K) <= MaxKeys} }

\* the tags of the locale tag lists: zh-TW and zh-Hant give the same key
\* zh_Hant, zh_Hant is no tag babel parses with sep='-', xx is unknown
Tags ==
    { Hy(zh, CN), Hy(zh, TW), Hy(zh, Hant), Us(zh, Hant),
      <<"a","l","l">>, <<"a","u","t","o">>, oc, xx }

\* the tag lists of the docstrings of get_engine_locale and build_engine_locales
DocLists ==
    { <<zh, Hy(zh, CN), Hy(zh, TW)>>,
      <<en, Hy(en, US), zh, Hy(zh, CN), Hy(zh, TW)>> }

\* the lists of at most n distinct tags
RECURSIVE ListsUpTo(_)
ListsUpTo(n) ==
    IF n = 0 THEN {<<>>}
    ELSE ListsUpTo(n - 1) \cup
         { Append(l, t) : <<l, t>> \in
             { x \in {l \in ListsUpTo(n - 1) : Len(l) = n - 1} \X Tags :
                 \A i \in 1..Len(x[1]) : x[1][i] # x[2] } }

TagLists == ListsUpTo(MaxTags) \cup DocLists

\* the dicts build_engine_locales makes of the tag lists
BuiltMaps == {build_engine_locales(l) : l \in TagLists}

Defaults == {NoneVal, <<"d">>}

\* the requested strings of match_locale, None among them
MatchRequests ==
    { NoneVal, <<>>, zh, Hy(zh, CN), Hy(<<"Z","H">>, <<"t","w">>), Hy(zh, Hant),
      Us(zh, Hant), oc, xx }

\* the tags get_locale, region_tag and language_tag are called with
LocaleTags == (Requests \cup Tags) \cup {Hy(Hy(zh, Hant), TW), Us(zh, TW)}

----------------------------------------------------------------------------
(* The calls *)

\* a call of get_engine_locale with a dict written by hand
InitGetEngineLocale ==
    /\ op = "get_engine_locale"
    /\ engine_locales \in HandMaps
    /\ locale_tag_list = <<>>

\* a call of get_engine_locale with the dict build_engine_locales made of a
\* tag list (what fetch_traits does)
InitGetEngineLocaleBuilt ==
    /\ op = "get_engine_locale"
    /\ locale_tag_list = <<>>
    /\ engine_locales \in {b.map : b \in {b \in BuiltMaps : b.exc = ""}}

InitMatchLocale ==
    /\ op = "match_locale"
    /\ catalog_order \in CatalogOrders
    /\ searxng_locale \in MatchRequests
    /\ default \in Defaults
    /\ locale_tag_list \in TagLists
    /\ engine_locales = EmptyDict

\* a call of get_locale, or of region_tag or language_tag with the locale
\* get_locale made of the tag
InitTagCalls ==
    /\ \/ op = "get_locale" /\ searxng_locale \in LocaleTags
       \/ /\ op \in {"region_tag", "language_tag"}
          /\ searxng_locale \in {t \in LocaleTags : get_locale(t).exc = ""}
    /\ locale_tag_list = <<>>
    /\ engine_locales = EmptyDict
    /\ catalog_order = TERRITORIES
    /\ default = NoneVal

\* a call of build_engine_locales alone
InitBuildEngineLocales ==
    /\ op = "build_engine_locales"
    /\ locale_tag_list \in TagLists
    /\ engine_locales = EmptyDict
    /\ catalog_order = TERRITORIES
    /\ searxng_locale = NoneVal
    /\ default = NoneVal

\* one call of one of the functions of searx/locales.py: no object, and no
\* other call under way
InitFunctions ==
    /\ pc = "call"
    /\ result = NoneVal
    /\ built = [exc |-> "", map |-> EmptyDict]
    /\ self = NoneVal
    /\ calls = <<>>
    /\ args = <<>>
    /\ \/ /\ catalog_order \in CatalogOrders
          /\ searxng_locale \in Requests
          /\ default \in Defaults
          /\ \/ InitGetEngineLocale
             \/ InitGetEngineLocaleBuilt
       \/ InitMatchLocale
       \/ InitBuildEngineLocales
       \/ InitTagCalls

Init == InitFunctions

CallGetEngineLocale ==
    /\ pc = "call"
    /\ op = "get_engine_locale"
    /\ result' = get_engine_locale(searxng_locale, engine_locales, default, catalog_order)
    /\ pc' = "return"
    /\ UNCHANGED <<op, catalog_order, searxng_locale, engine_locales, locale_tag_list, default, built, self, calls, args>>

CallMatchLocale ==
    /\ pc = "call"
    /\ op = "match_locale"
    /\ result' = match_locale(searxng_locale, locale_tag_list, default, catalog_order)
    /\ built' = IF searxng_locale \in {<<>>, NoneVal} \/ get_locale(searxng_locale).exc # ""
                THEN built
                ELSE build_engine_locales(CleanTagList(locale_tag_list))
    /\ pc' = "return"
    /\ UNCHANGED <<op, catalog_order, searxng_locale, engine_locales, locale_tag_list, default, self, calls, args>>

CallBuildEngineLocales ==
    /\ pc = "call"
    /\ op = "build_engine_locales"
    /\ built' = build_engine_locales(locale_tag_list)
    /\ pc' = "return"
    /\ UNCHANGED <<op, catalog_order, searxng_locale, engine_locales, locale_tag_list, default, result, self, calls, args>>

\* what a caller of get_locale gets: the locale (named by its identifier,
\* str(locale), which tells two locales apart), None, or the exception
LocaleOrNone(locale) ==
    IF locale.exc = "" THEN get_locale_identifier(locale)
    ELSE IF locale.exc = "UnknownLocaleError" THEN NoneVal
    ELSE ValueError

CallGetLocale ==
    /\ pc = "call"
    /\ op = "get_locale"
    /\ result' = LocaleOrNone(get_locale(searxng_locale))
    /\ pc' = "return"
    /\ UNCHANGED <<op, catalog_order, searxng_locale, engine_locales, locale_tag_list, default, built, self, calls, args>>

CallRegionTag ==
    /\ pc = "call"
    /\ op = "region_tag"
    /\ result' = region_tag(get_locale(searxng_locale))
    /\ pc' = "return"
    /\ UNCHANGED <<op, catalog_order, searxng_locale, engine_locales, locale_tag_list, default, built, self, calls, args>>

CallLanguageTag ==
    /\ pc = "call"
    /\ op = "language_tag"
    /\ result' = language_tag(get_locale(searxng_locale))
    /\ pc' = "return"
    /\ UNCHANGED <<op, catalog_order, searxng_locale, engine_locales, locale_tag_list, default, built, self, calls, args>>

Next ==
    \/ CallGetEngineLocale
    \/ CallMatchLocale
    \/ CallBuildEngineLocales
    \/ CallGetLocale
    \/ CallRegionTag
    \/ CallLanguageTag

Spec == Init /\ [][Next]_vars

----------------------------------------------------------------------------
(* Concurrent calls: request-handling workers call the functions without  *)
(* locking; catalog_order, engine_locales and locale_tag_list are the      *)
(* objects they share, calls[w] holds the local names of worker w's call   *)

\* largest number of workers
MaxWorkers == 2

Workers == 1..MaxWorkers

\* the dict the workers pass to get_engine_locale
SharedMap == [k \in {Hy(fr, BE), Hy(nl, BE)} |-> EngineTag(k)]

\* the list the workers pass to match_locale and build_engine_locales
SharedTagList == <<Hy(zh, TW), <<"a","l","l">>, Hy(zh, Hant)>>

\* a call that has not started: its function, its arguments, its local names
NewCall(f, requested, fallback) ==
    [op |-> f, pc |-> "start", arg |-> requested, searxng_locale |-> requested,
     fallback |-> fallback, locale |-> Raised("unset"), tag_list |-> <<>>,
     engine_locales |-> [exc |-> "", map |-> EmptyDict], result |-> NoneVal]

\* the calls a worker may make
WorkerCalls ==
    { NewCall("get_engine_locale", Hy(fr, BE), NoneVal),
      NewCall("get_engine_locale", fr, NoneVal),
      NewCall("get_engine_locale", xx, <<"d">>),
      NewCall("match_locale", Hy(zh, Hant), <<"d">>),
      NewCall("build_engine_locales", NoneVal, NoneVal) }

InitConcurrent ==
    /\ op = "workers"
    /\ pc = "call"
    /\ catalog_order \in CatalogOrders
    /\ engine_locales = SharedMap
    /\ locale_tag_list = SharedTagList
    /\ calls \in [Workers -> WorkerCalls]
    /\ searxng_locale = NoneVal
    /\ default = NoneVal
    /\ result = NoneVal
    /\ built = [exc |-> "", map |-> EmptyDict]
    /\ self = NoneVal
    /\ args = <<>>

\* worker w's call goes on to the local names c; nothing else is written
Step(w, c) ==
    /\ calls' = [calls EXCEPT ![w] = c]
    /\ UNCHANGED <<op, pc, catalog_order, searxng_locale, engine_locales,
                   locale_tag_list, default, result, built, self, args>>

Done(c, value) == [c EXCEPT !.pc = "done", !.result = value]

\* get_engine_locale, lines 284-289
GetDirect(w) ==
    /\ calls[w].op = "get_engine_locale" /\ calls[w].pc = "start"
    /\ Step(w, IF Get(engine_locales, calls[w].searxng_locale) # NoneVal
               THEN Done(calls[w], engine_locales[calls[w].searxng_locale])
               ELSE [calls[w] EXCEPT !.pc = "parse"])

\* the call after lines 291-297, given the locale they make
AfterParse(c, locale) ==
    IF locale.exc = "ValueError" THEN Done(c, ValueError)
    ELSE IF locale.exc = "UnknownLocaleError" THEN Done(c, c.fallback)
    ELSE [c EXCEPT !.pc = "narrow", !.locale = locale]

\* get_engine_locale, lines 291-297
GetParse(w) ==
    /\ calls[w].op = "get_engine_locale" /\ calls[w].pc = "parse"
    /\ Step(w, AfterParse(calls[w], ParseRequested(calls[w].searxng_locale)))

\* get_engine_locale, lines 299-376
GetNarrow(w) ==
    /\ calls[w].op = "get_engine_locale" /\ calls[w].pc = "narrow"
    /\ Step(w, Done(calls[w], Narrow(calls[w].locale, engine_locales,
                                      calls[w].fallback, catalog_order)))

\* the call after lines 405-413, given the locale get_locale makes
AfterGetLocale(c, locale) ==
    IF locale.exc = "ValueError" THEN Done(c, ValueError)
    ELSE IF locale.exc = "UnknownLocaleError" THEN Done(c, c.fallback)
    ELSE [c EXCEPT !.pc = "clean", !.locale = locale,
                   !.searxng_locale = IF locale.territory # NoneVal
                                      THEN region_tag(locale) ELSE language_tag(locale)]

\* match_locale, lines 402-413
MatchNormalize(w) ==
    /\ calls[w].op = "match_locale" /\ calls[w].pc = "start"
    /\ Step(w, IF calls[w].searxng_locale \in {<<>>, NoneVal}
               THEN Done(calls[w], calls[w].fallback)
               ELSE AfterGetLocale(calls[w], get_locale(calls[w].searxng_locale)))

\* lines 417-421 dropping the tags from the list that was passed
ArgumentCleanedInPlace(tag_list) == CleanTagList(tag_list)

\* match_locale, lines 417-421: the list that was passed, after the loop; the
\* tags kept are appended to a new list
ArgumentAfterClean(tag_list) == tag_list

\* match_locale, lines 417-421
MatchClean(w) ==
    /\ calls[w].op = "match_locale" /\ calls[w].pc = "clean"
    /\ calls' = [calls EXCEPT ![w] = [calls[w] EXCEPT !.pc = "build",
                                         !.tag_list = CleanTagList(locale_tag_list)]]
    /\ locale_tag_list' = ArgumentAfterClean(locale_tag_list)
    /\ UNCHANGED <<op, pc, catalog_order, searxng_locale, engine_locales,
                   default, result, built, self, args>>

\* build_engine_locales, line 458, called with the shared list
BuildStart(w) ==
    /\ calls[w].op = "build_engine_locales" /\ calls[w].pc = "start"
    /\ Step(w, [calls[w] EXCEPT !.pc = "build", !.tag_list = locale_tag_list])

\* the call after one more turn of the loop of lines 460-470
AfterBuildStep(c, dict) ==
    IF dict.exc # "" THEN Done([c EXCEPT !.engine_locales = dict], ValueError)
    ELSE [c EXCEPT !.engine_locales = dict, !.tag_list = Tail(c.tag_list)]

\* build_engine_locales, lines 460-470: one tag
BuildTag(w) ==
    /\ calls[w].pc = "build" /\ calls[w].tag_list # <<>>
    /\ Step(w, AfterBuildStep(calls[w], BuildStep(calls[w].engine_locales, calls[w].tag_list[1])))

\* build_engine_locales, line 471
BuildReturn(w) ==
    /\ calls[w].pc = "build" /\ calls[w].tag_list = <<>>
    /\ Step(w, IF calls[w].op = "match_locale"
               THEN [calls[w] EXCEPT !.pc = "delegate"]
               ELSE Done(calls[w], NoneVal))

\* match_locale, line 425
MatchDelegate(w) ==
    /\ calls[w].op = "match_locale" /\ calls[w].pc = "delegate"
    /\ Step(w, Done(calls[w], get_engine_locale(calls[w].searxng_locale,
                                                 calls[w].engine_locales.map,
                                                 calls[w].fallback, catalog_order)))

NextConcurrent ==
    \E w \in Workers :
        \/ GetDirect(w)
        \/ GetParse(w)
        \/ GetNarrow(w)
        \/ MatchNormalize(w)
        \/ MatchClean(w)
        \/ BuildStart(w)
        \/ BuildTag(w)
        \/ BuildReturn(w)
        \/ MatchDelegate(w)

SpecConcurrent == InitConcurrent /\ [][NextConcurrent]_vars

----------------------------------------------------------------------------
(* searx/preferences.py: the objects of the setting classes.  self is the  *)
(* object, pc the method that returned last ("object" after construction), *)
(* args the arguments of that call as the call left them, result the       *)
(* exception it raised or None                                             *)

ValidationException == <<"ValidationException">>

KeyError == <<"KeyError">>

\* the variables of searx/locales.py, which no method of a setting touches
NoFunctionCall ==
    /\ catalog_order = TERRITORIES
    /\ searxng_locale = NoneVal
    /\ engine_locales = EmptyDict
    /\ locale_tag_list = <<>>
    /\ built = [exc |-> "", map |-> EmptyDict]
    /\ calls = <<>>

\* EnumStringSetting.__init__: the object, or exc when _validate_selection
\* raises and no object is made
EnumStringSettingInit(default_value, choices, locked) ==
    IF default_value \notin choices
    THEN [class |-> "EnumStringSetting", exc |-> "ValidationException",
          value |-> NoneVal, locked |-> locked, choices |-> choices]
    ELSE [class |-> "EnumStringSetting", exc |-> "",
          value |-> default_value, locked |-> locked, choices |-> choices]

\* EnumStringSetting._validate_selection: it raises
InvalidSelection(setting, selection) == selection \notin setting.choices

\* EnumStringSetting.parse storing data before it is validated
EnumStringSettingParseUnchecked(setting, data) == [setting EXCEPT !.value = data]

\* EnumStringSetting.parse: the object after the call
EnumStringSettingParse(setting, data) ==
    IF InvalidSelection(setting, data) THEN setting
    ELSE [setting EXCEPT !.value = data]

GET == <<"G", "E", "T">>

POST == <<"P", "O", "S", "T">>

PUT == <<"P", "U", "T">>

\* the choices and the strings the settings are made of and called with
EnumChoices == {{GET, POST}, {GET, POST, <<>>}}

EnumData == {GET, POST, PUT, <<>>}

InitEnumStringSetting ==
    /\ op = "EnumStringSetting"
    /\ pc = "object"
    /\ default \in EnumData
    /\ \E choices \in EnumChoices : self = EnumStringSettingInit(default, choices, FALSE)
    /\ args = <<>>
    /\ result = NoneVal
    /\ NoFunctionCall

\* setting.parse(data)
CallEnumStringSettingParse ==
    /\ op = "EnumStringSetting" /\ self.exc = ""
    /\ pc' = "parse"
    /\ \E data \in EnumData :
          /\ args' = <<data>>
          /\ self' = EnumStringSettingParse(self, data)
          /\ result' = IF InvalidSelection(self, data) THEN ValidationException ELSE NoneVal
    /\ UNCHANGED <<op, catalog_order, searxng_locale, engine_locales,
                   locale_tag_list, default, built, calls>>

\* a dict is the list of its items [k, v] in insertion order
DictKeys(d) == [i \in 1..Len(d) |-> d[i].k]

\* k in d
HasKey(d, k) == \E i \in 1..Len(d) : d[i].k = k

\* d[k]
DictGet(d, k) == d[CHOOSE i \in 1..Len(d) : d[i].k = k].v

\* d[k] = v for a key d has
DictSet(d, k, v) == [i \in 1..Len(d) |-> IF d[i].k = k THEN [k |-> k, v |-> v] ELSE d[i]]

\* BooleanChoices.__init__
BooleanChoicesInit(name, choices, locked) ==
    [exc |-> "", name |-> name, choices |-> choices, locked |-> locked,
     default_choices |-> choices]

\* one loop of parse_cookie: choices[n] = v for every n of names in choices
RECURSIVE SetEach(_, _, _)
SetEach(choices, names, v) ==
    IF names = <<>> THEN choices
    ELSE SetEach(IF HasKey(choices, Head(names)) THEN DictSet(choices, Head(names), v)
                 ELSE choices,
                 Tail(names), v)

\* parse_cookie taking each cookie for one name
BooleanChoicesParseCookieUnsplit(obj, data_disabled, data_enabled) ==
    [obj EXCEPT !.choices = SetEach(SetEach(@, <<data_disabled>>, FALSE), <<data_enabled>>, TRUE)]

\* BooleanChoices.parse_cookie: the object after the call
BooleanChoicesParseCookie(obj, data_disabled, data_enabled) ==
    [obj EXCEPT !.choices = SetEach(SetEach(@, Split(data_disabled, ","), FALSE),
                                    Split(data_enabled, ","), TRUE)]

\* BooleanChoices.transform_form_items
TransformFormItems(items) == items

\* BooleanChoices.parse_form after transform_form_items gave disabled
BooleanChoicesParseForm(obj, disabled) ==
    IF obj.locked THEN obj
    ELSE [obj EXCEPT !.choices =
              [i \in 1..Len(@) |-> [k |-> @[i].k, v |-> @[i].k \notin Range(disabled)]]]

\* BooleanChoices.enabled and BooleanChoices.disabled
Enabled(obj) == DictKeys(SelectSeq(obj.choices, LAMBDA item : item.v))

Disabled(obj) == DictKeys(SelectSeq(obj.choices, LAMBDA item : ~item.v))

DisabledChanged(obj) == SelectSeq(Disabled(obj), LAMBDA k : DictGet(obj.default_choices, k))

EnabledChanged(obj) == SelectSeq(Enabled(obj), LAMBDA k : ~DictGet(obj.default_choices, k))

\* BooleanChoices.save: the cookies 'disabled_<name>' and 'enabled_<name>'
\* set on resp
BooleanChoicesSave(obj) ==
    [disabled |-> Join(DisabledChanged(obj), <<",">>),
     enabled |-> Join(EnabledChanged(obj), <<",">>)]

\* the names of the choices, in the order of the dict
ChoiceNames == <<<<"a">>, <<"a", "b">>, <<"b">>>>

ChoiceDicts ==
    {[i \in 1..Len(ChoiceNames) |-> [k |-> ChoiceNames[i], v |-> f[i]]] :
        f \in [1..Len(ChoiceNames) -> BOOLEAN]}

\* the cookies and the form items the methods are called with
CookieData == {<<>>, <<"a">>, <<"a", "b">>, <<"b", ",", "a", "b">>, <<"a", ",", "b">>, <<"x", ",", "a">>, <<"a", ",", "a", "b", ",", "b">>}

FormItems == {<<>>, <<<<"a">>>>, <<<<"b">>, <<"a", "b">>>>, <<<<"x">>, <<"a">>, <<"a", "b">>>>}

InitBooleanChoices ==
    /\ op = "BooleanChoices"
    /\ pc = "object"
    /\ \E choices \in ChoiceDicts, locked \in BOOLEAN :
          self = BooleanChoicesInit(<<"p", "l", "u", "g", "i", "n", "s">>, choices, locked)
    /\ args = <<>>
    /\ result = NoneVal
    /\ default = NoneVal
    /\ NoFunctionCall

\* choices.parse_cookie(data_disabled, data_enabled)
CallParseCookie ==
    /\ op = "BooleanChoices"
    /\ pc' = "parse_cookie"
    /\ \E data_disabled \in CookieData, data_enabled \in CookieData :
          /\ args' = <<data_disabled, data_enabled>>
          /\ self' = BooleanChoicesParseCookie(self, data_disabled, data_enabled)
    /\ UNCHANGED <<op, catalog_order, searxng_locale, engine_locales,
                   locale_tag_list, default, result, built, calls>>

\* choices.parse_form(items)
CallParseForm ==
    /\ op = "BooleanChoices"
    /\ pc' = "parse_form"
    /\ \E items \in FormItems :
          /\ args' = <<items>>
          /\ self' = BooleanChoicesParseForm(self, TransformFormItems(items))
    /\ UNCHANGED <<op, catalog_order, searxng_locale, engine_locales,
                   locale_tag_list, default, result, built, calls>>

\* choices.save(resp): args is resp with the two cookies set
CallSave ==
    /\ op = "BooleanChoices"
    /\ pc' = "save"
    /\ args' = <<BooleanChoicesSave(self)>>
    /\ UNCHANGED <<op, catalog_order, searxng_locale, engine_locales,
                   locale_tag_list, default, result, built, self, calls>>

\* s.startswith(prefix)
StartsWith(s, prefix) == Len(s) >= Len(prefix) /\ SubSeq(s, 1, Len(prefix)) = prefix

\* s[n:]
From(s, n) == SubSeq(s, n + 1, Len(s))

\* s.replace(a, b) for a and b of two characters
RECURSIVE ReplaceTwo(_, _, _)
ReplaceTwo(s, a, b) ==
    IF Len(s) < 2 THEN s
    ELSE IF SubSeq(s, 1, 2) = a THEN b \o ReplaceTwo(From(s, 2), a, b)
    ELSE <<s[1]>> \o ReplaceTwo(Tail(s), a, b)

\* d.get(k, other)
DictGetOr(d, k, other) == IF HasKey(d, k) THEN DictGet(d, k) ELSE other

\* d[k] = v
DictPut(d, k, v) == IF HasKey(d, k) THEN DictSet(d, k, v) ELSE Append(d, [k |-> k, v |-> v])

MAP_STR2BOOL ==
    <<[k |-> <<"0">>, v |-> FALSE], [k |-> <<"1">>, v |-> TRUE], [k |-> <<"o", "n">>, v |-> TRUE],
      [k |-> <<"o", "f", "f">>, v |-> FALSE], [k |-> <<"T", "r", "u", "e">>, v |-> TRUE], [k |-> <<"F", "a", "l", "s", "e">>, v |-> FALSE],
      [k |-> <<"n", "o", "n", "e">>, v |-> FALSE]>>

\* MultipleChoiceSetting._validate_selections: it raises
InvalidSelections(setting, selections) ==
    \E i \in 1..Len(selections) : selections[i] \notin setting.choices

\* MultipleChoiceSetting.__init__
MultipleChoiceSettingInit(default_value, choices, locked) ==
    [class |-> "MultipleChoiceSetting",
     exc |-> IF \E i \in 1..Len(default_value) : default_value[i] \notin choices
             THEN "ValidationException" ELSE "",
     value |-> default_value, locked |-> locked, choices |-> choices]

\* MultipleChoiceSetting.parse: the object after the call
MultipleChoiceSettingParse(setting, data) ==
    IF data = <<>> THEN [setting EXCEPT !.value = <<>>]
    ELSE IF InvalidSelections(setting, Split(data, ",")) THEN setting
    ELSE [setting EXCEPT !.value = Split(data, ",")]

\* the loop of MultipleChoiceSetting.parse_form
RECURSIVE AppendChoices(_, _, _)
AppendChoices(value, data, choices) ==
    IF data = <<>> THEN value
    ELSE AppendChoices(IF Head(data) \in choices /\ Head(data) \notin Range(value)
                       THEN Append(value, Head(data)) ELSE value,
                       Tail(data), choices)

\* MultipleChoiceSetting.parse_form: the object after the call
MultipleChoiceSettingParseForm(setting, data) ==
    IF setting.locked THEN setting
    ELSE [setting EXCEPT !.value = AppendChoices(<<>>, data, setting.choices)]

\* SetSetting.__init__
SetSettingInit(default_value) ==
    [class |-> "SetSetting", exc |-> "", value |-> default_value, locked |-> FALSE, values |-> {}]

\* SetSetting.parse: the object after the call
SetSettingParse(setting, data) ==
    IF data = <<>> THEN [setting EXCEPT !.values = {}]
    ELSE [setting EXCEPT !.values = @ \cup Range(Split(data, ","))]

\* SetSetting.parse_form: the object after the call
SetSettingParseForm(setting, data) ==
    IF setting.locked THEN setting
    ELSE [setting EXCEPT !.values = Range(Split(data, ","))]

\* BooleanSetting.normalized_str
normalized_str(val) == SelectSeq(MAP_STR2BOOL, LAMBDA item : item.v = val)[1].k

\* a BooleanSetting as Setting.__init__ leaves it: no attribute key yet
BooleanSettingInit(default_value, locked) ==
    [class |-> "BooleanSetting", exc |-> "", value |-> default_value, locked |-> locked,
     key |-> NoneVal]

\* BooleanSetting.parse: the object after the call
BooleanSettingParse(setting, data) ==
    IF ~HasKey(MAP_STR2BOOL, data) THEN setting
    ELSE [setting EXCEPT !.value = DictGet(MAP_STR2BOOL, data),
                         !.key = normalized_str(DictGet(MAP_STR2BOOL, data))]

\* setting.parse(data) for a setting of any of the classes: the exception it
\* raises, "" when it returns
ParseRaises(setting, data) ==
    IF setting.class = "EnumStringSetting"
    THEN (IF InvalidSelection(setting, data) THEN "ValidationException" ELSE "")
    ELSE IF setting.class = "BooleanSetting"
    THEN (IF ~HasKey(MAP_STR2BOOL, data) THEN "KeyError" ELSE "")
    ELSE IF data # <<>> /\ InvalidSelections(setting, Split(data, ","))
    THEN "ValidationException" ELSE ""

\* setting.parse(data) for a setting of any of the classes: the object after
\* the call
SettingParse(setting, data) ==
    IF setting.class = "EnumStringSetting" THEN EnumStringSettingParse(setting, data)
    ELSE IF setting.class = "BooleanSetting" THEN BooleanSettingParse(setting, data)
    ELSE MultipleChoiceSettingParse(setting, data)

\* EnginesSetting.transform_form_items
EnginesTransformFormItems(items) ==
    [i \in 1..Len(items) |->
        ReplaceTwo(Replace(From(items[i], Len(<<"e", "n", "g", "i", "n", "e", "_">>)), "_", " "), <<" ", " ">>, <<"_", "_">>)]

\* PluginsSetting.transform_form_items
PluginsTransformFormItems(items) == [i \in 1..Len(items) |-> From(items[i], Len(<<"p", "l", "u", "g", "i", "n", "_">>))]

DEFAULT_CATEGORY == <<"o", "t", "h", "e", "r">>

\* settings['categories_as_tabs'], the engines and the plugins of the instance
CategoriesAsTabs == {<<"g", "e", "n", "e", "r", "a", "l">>, <<"i", "m", "a", "g", "e", "s">>}

Engines == <<[name |-> <<"e">>, categories |-> <<<<"g", "e", "n", "e", "r", "a", "l">>, <<"s", "c", "i", "e", "n", "c", "e">>>>, disabled |-> FALSE]>>

Plugins == <<[id |-> <<"p">>, default_on |-> FALSE]>>

\* the choices EnginesSetting.__init__ makes of one engine
EngineChoices(engine) ==
    [i \in 1..Len(SelectSeq(engine.categories,
                            LAMBDA c : c \in CategoriesAsTabs \cup {DEFAULT_CATEGORY})) |->
        [k |-> engine.name \o <<"_", "_">> \o
                 SelectSeq(engine.categories,
                           LAMBDA c : c \in CategoriesAsTabs \cup {DEFAULT_CATEGORY})[i],
         v |-> ~engine.disabled]]

\* EnginesSetting.__init__
RECURSIVE EnginesChoices(_)
EnginesChoices(engines) ==
    IF engines = <<>> THEN <<>>
    ELSE EngineChoices(Head(engines)) \o EnginesChoices(Tail(engines))

EnginesSettingInit(default_value, engines) ==
    BooleanChoicesInit(default_value, EnginesChoices(engines), FALSE)

\* PluginsSetting.__init__
PluginsSettingInit(default_value, plugins) ==
    BooleanChoicesInit(default_value,
                       [i \in 1..Len(plugins) |-> [k |-> plugins[i].id, v |-> plugins[i].default_on]],
                       FALSE)

\* settings['preferences']['lock'] of settings.yml, which may lack either key
LockSettings ==
    {[preferences |-> FALSE, lock |-> FALSE, names |-> {}],
     [preferences |-> TRUE, lock |-> FALSE, names |-> {}]}
    \cup {[preferences |-> TRUE, lock |-> TRUE, names |-> names] :
             names \in {{}, {<<"m", "e", "t", "h", "o", "d">>}, {<<"c", "a", "t", "e", "g", "o", "r", "i", "e", "s">>, <<"i", "m", "a", "g", "e", "_", "p", "r", "o", "x", "y">>, <<"m", "e", "t", "h", "o", "d">>}}}

is_locked(settings, setting_name) ==
    IF ~settings.preferences THEN FALSE
    ELSE IF ~settings.lock THEN FALSE
    ELSE setting_name \in settings.names

\* Preferences.__init__ with the settings categories, image_proxy and method
\* of key_value_settings, the other key-value settings being of the same
\* classes
PreferencesInit(settings, categories, image_proxy, method) ==
    [exc |-> "",
     key_value_settings |->
        <<[k |-> <<"c", "a", "t", "e", "g", "o", "r", "i", "e", "s">>,
           v |-> MultipleChoiceSettingInit(<<<<"g", "e", "n", "e", "r", "a", "l">>>>, Range(categories) \cup {<<"n", "o", "n", "e">>},
                                           is_locked(settings, <<"c", "a", "t", "e", "g", "o", "r", "i", "e", "s">>))],
          [k |-> <<"i", "m", "a", "g", "e", "_", "p", "r", "o", "x", "y">>,
           v |-> BooleanSettingInit(image_proxy, is_locked(settings, <<"i", "m", "a", "g", "e", "_", "p", "r", "o", "x", "y">>))],
          [k |-> <<"m", "e", "t", "h", "o", "d">>,
           v |-> EnumStringSettingInit(method, {GET, POST}, is_locked(settings, <<"m", "e", "t", "h", "o", "d">>))]>>,
     engines |-> EnginesSettingInit(<<"e", "n", "g", "i", "n", "e", "s">>, Engines),
     plugins |-> PluginsSettingInit(<<"p", "l", "u", "g", "i", "n", "s">>, Plugins),
     tokens |-> SetSettingInit(<<"t", "o", "k", "e", "n", "s">>),
     unknown_params |-> <<>>]

\* one turn of the loop of Preferences.parse_dict
ParseDictItem(prefs, input_data, name, data) ==
    IF HasKey(prefs.key_value_settings, name)
    THEN IF DictGet(prefs.key_value_settings, name).locked
         THEN [exc |-> "", prefs |-> prefs]
         ELSE [exc |-> ParseRaises(DictGet(prefs.key_value_settings, name), data),
               prefs |-> [prefs EXCEPT !.key_value_settings =
                             DictSet(@, name, SettingParse(DictGet(@, name), data))]]
    ELSE IF name = <<"d", "i", "s", "a", "b", "l", "e", "d", "_", "e", "n", "g", "i", "n", "e", "s">>
    THEN [exc |-> "",
          prefs |-> [prefs EXCEPT !.engines =
                        BooleanChoicesParseCookie(@, DictGetOr(input_data, <<"d", "i", "s", "a", "b", "l", "e", "d", "_", "e", "n", "g", "i", "n", "e", "s">>, <<>>),
                                                  DictGetOr(input_data, <<"e", "n", "a", "b", "l", "e", "d", "_", "e", "n", "g", "i", "n", "e", "s">>, <<>>))]]
    ELSE IF name = <<"d", "i", "s", "a", "b", "l", "e", "d", "_", "p", "l", "u", "g", "i", "n", "s">>
    THEN [exc |-> "",
          prefs |-> [prefs EXCEPT !.plugins =
                        BooleanChoicesParseCookie(@, DictGetOr(input_data, <<"d", "i", "s", "a", "b", "l", "e", "d", "_", "p", "l", "u", "g", "i", "n", "s">>, <<>>),
                                                  DictGetOr(input_data, <<"e", "n", "a", "b", "l", "e", "d", "_", "p", "l", "u", "g", "i", "n", "s">>, <<>>))]]
    ELSE IF name = <<"t", "o", "k", "e", "n", "s">>
    THEN [exc |-> "", prefs |-> [prefs EXCEPT !.tokens = SetSettingParse(@, data)]]
    ELSE IF ~\E x \in {<<"e", "n", "a", "b", "l", "e", "d", "_">>, <<"d", "i", "s", "a", "b", "l", "e", "d", "_">>, <<"e", "n", "g", "i", "n", "e", "_">>, <<"c", "a", "t", "e", "g", "o", "r", "y", "_">>, <<"p", "l", "u", "g", "i", "n", "_">>} :
                StartsWith(name, x)
    THEN [exc |-> "", prefs |-> [prefs EXCEPT !.unknown_params = DictPut(@, name, data)]]
    ELSE [exc |-> "", prefs |-> prefs]

\* Preferences.parse_dict from item i on: the exception that ends it, and the
\* object as the call leaves it
RECURSIVE ParseDictFrom(_, _, _)
ParseDictFrom(r, input_data, i) ==
    IF r.exc # "" \/ i > Len(input_data) THEN r
    ELSE ParseDictFrom(ParseDictItem(r.prefs, input_data, input_data[i].k, input_data[i].v),
                       input_data, i + 1)

\* Preferences.parse_dict
PreferencesParseDict(prefs, input_data) ==
    ParseDictFrom([exc |-> "", prefs |-> prefs], input_data, 1)

\* the first loop of Preferences.parse_form: input_data with 'False' for every
\* BooleanSetting it has no item for
RECURSIVE WithFalse(_, _, _)
WithFalse(input_data, key_value_settings, i) ==
    IF i > Len(key_value_settings) THEN input_data
    ELSE WithFalse(IF ~HasKey(input_data, key_value_settings[i].k)
                      /\ key_value_settings[i].v.class = "BooleanSetting"
                   THEN Append(input_data, [k |-> key_value_settings[i].k, v |-> <<"F", "a", "l", "s", "e">>])
                   ELSE input_data,
                   key_value_settings, i + 1)

\* one turn of the second loop of Preferences.parse_form
ParseFormItem(r, name, data) ==
    IF HasKey(r.prefs.key_value_settings, name)
    THEN [r EXCEPT !.exc = ParseRaises(DictGet(r.prefs.key_value_settings, name), data),
                   !.prefs.key_value_settings =
                        DictSet(@, name, SettingParse(DictGet(@, name), data))]
    ELSE IF StartsWith(name, <<"e", "n", "g", "i", "n", "e", "_">>)
    THEN [r EXCEPT !.disabled_engines = Append(@, name)]
    ELSE IF StartsWith(name, <<"c", "a", "t", "e", "g", "o", "r", "y", "_">>)
    THEN [r EXCEPT !.enabled_categories = Append(@, From(name, Len(<<"c", "a", "t", "e", "g", "o", "r", "y", "_">>)))]
    ELSE IF StartsWith(name, <<"p", "l", "u", "g", "i", "n", "_">>)
    THEN [r EXCEPT !.disabled_plugins = Append(@, name)]
    ELSE IF name = <<"t", "o", "k", "e", "n", "s">>
    THEN [r EXCEPT !.prefs.tokens = SetSettingParseForm(@, data)]
    ELSE [r EXCEPT !.prefs.unknown_params = DictPut(@, name, data)]

\* the second loop of Preferences.parse_form from item i on
RECURSIVE ParseFormFrom(_, _, _)
ParseFormFrom(r, input_data, i) ==
    IF r.exc # "" \/ i > Len(input_data) THEN r
    ELSE ParseFormFrom(ParseFormItem(r, input_data[i].k, input_data[i].v), input_data, i + 1)

\* the three calls that end Preferences.parse_form, not reached when the loop
\* raised
ParseFormEnd(r) ==
    IF r.exc # "" THEN [exc |-> r.exc, prefs |-> r.prefs]
    ELSE [exc |-> "",
          prefs |-> [r.prefs EXCEPT
              !.key_value_settings =
                  DictSet(@, <<"c", "a", "t", "e", "g", "o", "r", "i", "e", "s">>,
                          MultipleChoiceSettingParseForm(DictGet(@, <<"c", "a", "t", "e", "g", "o", "r", "i", "e", "s">>),
                                                         r.enabled_categories)),
              !.engines = BooleanChoicesParseForm(@, EnginesTransformFormItems(r.disabled_engines)),
              !.plugins = BooleanChoicesParseForm(@, PluginsTransformFormItems(r.disabled_plugins))]]

\* Preferences.parse_form
PreferencesParseForm(prefs, input_data) ==
    ParseFormEnd(ParseFormFrom([exc |-> "", prefs |-> prefs, disabled_engines |-> <<>>,
                                enabled_categories |-> <<>>, disabled_plugins |-> <<>>],
                               WithFalse(input_data, prefs.key_value_settings, 1), 1))

\* what a call leaves in result
ResultOf(exc) == IF exc = "" THEN NoneVal ELSE <<exc>>

\* the request data parse_dict and parse_form are called with
InputData ==
    {<<>>,
     <<[k |-> <<"m", "e", "t", "h", "o", "d">>, v |-> <<"P", "O", "S", "T">>]>>,
     <<[k |-> <<"m", "e", "t", "h", "o", "d">>, v |-> <<"P", "U", "T">>]>>,
     <<[k |-> <<"i", "m", "a", "g", "e", "_", "p", "r", "o", "x", "y">>, v |-> <<"1">>], [k |-> <<"q">>, v |-> <<"x">>]>>,
     <<[k |-> <<"i", "m", "a", "g", "e", "_", "p", "r", "o", "x", "y">>, v |-> <<"x">>]>>,
     <<[k |-> <<"c", "a", "t", "e", "g", "o", "r", "i", "e", "s">>, v |-> <<"n", "o", "n", "e">>], [k |-> <<"c", "a", "t", "e", "g", "o", "r", "y", "_", "g", "e", "n", "e", "r", "a", "l">>, v |-> <<"o", "n">>]>>,
     <<[k |-> <<"c", "a", "t", "e", "g", "o", "r", "i", "e", "s">>, v |-> <<"g", "e", "n", "e", "r", "a", "l", ",", "i", "m", "a", "g", "e", "s">>], [k |-> <<"m", "e", "t", "h", "o", "d">>, v |-> <<"G", "E", "T">>]>>,
     <<[k |-> <<"c", "a", "t", "e", "g", "o", "r", "y", "_", "i", "m", "a", "g", "e", "s">>, v |-> <<"o", "n">>], [k |-> <<"c", "a", "t", "e", "g", "o", "r", "y", "_", "x">>, v |-> <<"o", "n">>]>>,
     <<[k |-> <<"p", "l", "u", "g", "i", "n", "_", "p">>, v |-> <<"o", "n">>], [k |-> <<"e", "n", "g", "i", "n", "e", "_", "e", "_", "_", "g", "e", "n", "e", "r", "a", "l">>, v |-> <<"o", "n">>], [k |-> <<"t", "o", "k", "e", "n", "s">>, v |-> <<"t">>]>>,
     <<[k |-> <<"d", "i", "s", "a", "b", "l", "e", "d", "_", "e", "n", "g", "i", "n", "e", "s">>, v |-> <<"e", "_", "_", "g", "e", "n", "e", "r", "a", "l">>], [k |-> <<"d", "i", "s", "a", "b", "l", "e", "d", "_", "p", "l", "u", "g", "i", "n", "s">>, v |-> <<>>], [k |-> <<"e", "n", "a", "b", "l", "e", "d", "_", "p", "l", "u", "g", "i", "n", "s">>, v |-> <<"p">>], [k |-> <<"t", "o", "k", "e", "n", "s">>, v |-> <<"t">>]>>}

\* default is the object as constructed, its settings hold the default values
InitPreferences ==
    /\ op = "Preferences"
    /\ pc = "object"
    /\ \E settings \in LockSettings, image_proxy \in BOOLEAN, method \in {GET, POST} :
          self = PreferencesInit(settings, <<<<"g", "e", "n", "e", "r", "a", "l">>, <<"i", "m", "a", "g", "e", "s">>>>, image_proxy, method)
    /\ default = self
    /\ args = <<>>
    /\ result = NoneVal
    /\ NoFunctionCall

\* preferences.parse_dict(input_data)
CallParseDict ==
    /\ op = "Preferences"
    /\ pc' = "parse_dict"
    /\ \E input_data \in InputData :
          /\ args' = <<input_data>>
          /\ self' = PreferencesParseDict(self, input_data).prefs
          /\ result' = ResultOf(PreferencesParseDict(self, input_data).exc)
    /\ UNCHANGED <<op, catalog_order, searxng_locale, engine_locales,
                   locale_tag_list, default, built, calls>>

\* preferences.parse_form(input_data): args is input_data as the call leaves it
CallPreferencesParseForm ==
    /\ op = "Preferences"
    /\ pc' = "parse_form"
    /\ \E input_data \in InputData :
          /\ args' = <<WithFalse(input_data, self.key_value_settings, 1)>>
          /\ self' = PreferencesParseForm(self, input_data).prefs
          /\ result' = ResultOf(PreferencesParseForm(self, input_data).exc)
    /\ UNCHANGED <<op, catalog_order, searxng_locale, engine_locales,
                   locale_tag_list, default, built, calls>>

InitSettings ==
    \/ InitEnumStringSetting
    \/ InitBooleanChoices

NextSettings ==
    \/ CallEnumStringSettingParse
    \/ CallParseCookie
    \/ CallParseForm
    \/ CallSave

SpecSettings == InitSettings /\ [][NextSettings]_vars

NextPreferences ==
    \/ CallParseDict
    \/ CallPreferencesParseForm

SpecPreferences == InitPreferences /\ [][NextPreferences]_vars

----------------------------------------------------------------------------
(* What the properties below speak of *)

Returned == pc = "return"

\* the call of get_engine_locale has returned or raised
GetReturned == pc = "return" /\ op = "get_engine_locale"

\* the locale get_engine_locale makes of each requested string of the inputs
ParsedRequests == [r \in Requests |-> ParseRequested(r)]

\* the locale get_engine_locale makes of the requested string
ReqLocale ==
    IF searxng_locale \in Requests THEN ParsedRequests[searxng_locale]
    ELSE ParseRequested(searxng_locale)

ReqParsed == ReqLocale.exc = ""

\* the language has a status of any kind in the territory
HasStatus(territory, language) ==
    \E e \in TERRITORY_LANGUAGES :
        e.territory = territory /\ e.language = language /\ e.official_status # "None"

\* the language is official or de facto official in the territory
IsOfficial(territory, language) ==
    \E e \in TERRITORY_LANGUAGES :
        /\ e.territory = territory /\ e.language = language
        /\ e.official_status \in {"official", "de_facto_official"}

\* the keys "<official language>-<territory>" of the map, for the territory
\* of the requested locale
TerritoryKeys ==
    IF ~ReqParsed \/ ReqLocale.territory = NoneVal THEN {}
    ELSE {k \in DOMAIN engine_locales :
            \E e \in TERRITORY_LANGUAGES :
                /\ IsOfficial(ReqLocale.territory, e.language)
                /\ k = e.language \o HYPHEN \o ReqLocale.territory}

\* the territory named like the requested language
SelfTerritory == IF ReqLocale.language = en THEN US ELSE Upper(ReqLocale.language)

SelfKey == ReqLocale.language \o HYPHEN \o SelfTerritory

\* the catalog entries of the territories where the requested language tag
\* has a status and whose key "<language>-<territory>" the map holds
Candidates ==
    IF ~ReqParsed THEN {}
    ELSE {e \in TERRITORY_LANGUAGES :
            /\ e.language = language_tag(ReqLocale)
            /\ e.official_status # "None"
            /\ (ReqLocale.language \o HYPHEN \o e.territory) \in DOMAIN engine_locales}

CandidateValue(e) == engine_locales[ReqLocale.language \o HYPHEN \o e.territory]

\* no hit by the requested string, by its language tag, nor by its territory
Steps1To4Miss ==
    /\ ReqParsed
    /\ searxng_locale \notin DOMAIN engine_locales
    /\ language_tag(ReqLocale) \notin DOMAIN engine_locales
    /\ TerritoryKeys = {}

ElementsOf(list) == {list[i] : i \in 1..Len(list)}

----------------------------------------------------------------------------
(* Properties *)

\* C1: a value returned by get_engine_locale is the default or a value of the
\* map, and a value returned by match_locale is the fallback or an element of
\* the tag list: no tag is made up.
NoNewTag ==
    Returned /\ ~IsRaise(result) =>
        /\ op = "get_engine_locale" =>
              result = default \/ result \in Range(engine_locales)
        /\ op = "match_locale" =>
              result = default \/ result \in ElementsOf(locale_tag_list)

\* C1 witness: match_locale returned a tag of the list that is neither the
\* fallback nor the requested string
NoNewTagWitness ==
    /\ Returned /\ op = "match_locale"
    /\ result # default /\ result # searxng_locale
    /\ result \in ElementsOf(locale_tag_list)

\* C2: a requested string that is a key of the map yields the key's value,
\* parsable or not.
IdentityLaw ==
    GetReturned /\ searxng_locale \in DOMAIN engine_locales =>
        result = engine_locales[searxng_locale]

\* C2 witness: the key "zh_Hant", which does not parse, was requested
IdentityLawWitness ==
    /\ GetReturned /\ searxng_locale = Us(zh, Hant)
    /\ LocaleParse(searxng_locale, "-").exc = "ValueError"
    /\ searxng_locale \in DOMAIN engine_locales
    /\ result = engine_locales[searxng_locale]

\* C3 (as claimed): get_engine_locale never raises, and a non-empty requested
\* string that is no well-formed locale tag yields default.
TotalRobustness ==
    GetReturned =>
        /\ ~IsRaise(result)
        /\ (searxng_locale # <<>> /\ parse_locale(searxng_locale, "-").exc = "ValueError")
              => result = default

\* C4: a requested string that is no key but whose locale's language tag is a
\* key yields that key's value; with the map built of zh, zh-CN, zh-TW the
\* request zh-Hans yields zh-CN and zh-Hant yields zh-TW.
ScriptBridge ==
    GetReturned =>
        /\ (/\ searxng_locale \notin DOMAIN engine_locales
            /\ ReqParsed
            /\ language_tag(ReqLocale) \in DOMAIN engine_locales)
              => result = engine_locales[language_tag(ReqLocale)]
        /\ engine_locales = build_engine_locales(<<zh, Hy(zh, CN), Hy(zh, TW)>>).map
              => /\ searxng_locale = Hy(zh, Hans) => result = Hy(zh, CN)
                 /\ searxng_locale = Hy(zh, Hant) => result = Hy(zh, TW)

\* C4 witness: zh-Hans was requested of the map built of zh, zh-CN, zh-TW
ScriptBridgeWitness ==
    /\ GetReturned /\ searxng_locale = Hy(zh, Hans)
    /\ DOMAIN engine_locales = {zh, Hy(zh, CN), Hy(zh, TW), Us(zh, Hans), Us(zh, Hant)}
    /\ engine_locales[Us(zh, Hans)] = Hy(zh, CN)
    /\ result = Hy(zh, CN)

SelfTerritoryAsClaimed ==
    GetReturned /\ Steps1To4Miss /\ SelfKey \in DOMAIN engine_locales
        => result = engine_locales[SelfKey]

\* C6 (amended): ... and the requested language tag has a status in that
\* territory in the catalog; then the key's value is returned.
SelfTerritoryShortcut ==
    (/\ GetReturned /\ Steps1To4Miss
     /\ SelfKey \in DOMAIN engine_locales
     /\ HasStatus(SelfTerritory, language_tag(ReqLocale)))
        => result = engine_locales[SelfKey]

\* C6 witness: fr requested of a map with fr-FR and another territory of the
\* same share that the catalog lists first
SelfTerritoryShortcutWitness ==
    /\ GetReturned /\ searxng_locale = fr
    /\ DOMAIN engine_locales = {Hy(fr, FR), Hy(fr, MF)}
    /\ catalog_order = Reverse(TERRITORIES)
    /\ result = engine_locales[Hy(fr, FR)]

\* the entry comes first by population share, then by territory code
RanksBefore(a, b) ==
    \/ a.population_percent > b.population_percent
    \/ a.population_percent = b.population_percent /\ StrLess(a.territory, b.territory)

\* the earlier steps, the self-territory shortcut included, give no hit
Steps1To5aMiss ==
    /\ Steps1To4Miss
    /\ ~(SelfKey \in DOMAIN engine_locales /\ HasStatus(SelfTerritory, language_tag(ReqLocale)))

\* C7 (as claimed): in the step by population the territories are probed by
\* share descending and, at equal share, by territory code ascending, so the
\* result is the value of the first candidate in that order, whatever the
\* order of the catalog.
PopulationTieBreak ==
    GetReturned /\ Steps1To5aMiss /\ Candidates # {} =>
        \E e \in Candidates :
            /\ result = CandidateValue(e)
            /\ \A o \in Candidates : o = e \/ RanksBefore(e, o)

\* C8: a miss on a territory of larger share does not end the search: the
\* result is the value of a candidate of the largest share among those whose
\* key the map holds; fr requested of a map holding only fr-BE yields it.
DescendingThenFallback ==
    GetReturned /\ Steps1To5aMiss /\ Candidates # {} =>
        \E e \in Candidates :
            /\ result = CandidateValue(e)
            /\ \A o \in Candidates : o.population_percent <= e.population_percent

\* C8 witness: fr is official in MF (100) and BE (38); the map holds only fr-BE
DescendingThenFallbackWitness ==
    /\ GetReturned /\ searxng_locale = fr
    /\ DOMAIN engine_locales = {Hy(fr, BE)}
    /\ HasStatus(MF, fr) /\ HasStatus(BE, fr)
    /\ result = engine_locales[Hy(fr, BE)]

\* C9: with no key for the requested string, its language tag, an official
\* language of its territory or a territory where its language has a status,
\* the default is returned; a language, or a territory, the catalog does not
\* know is such a miss and no error.
NoMatchIsDefault ==
    GetReturned =>
        /\ (Steps1To4Miss /\ Candidates = {}) => result = default
        /\ (/\ searxng_locale \notin DOMAIN engine_locales
            /\ ReqLocale.exc = "UnknownLocaleError") => result = default

\* C9 witness: en-001, whose territory the catalog does not list, requested of
\* a map that is not empty, with a default that is not None
NoMatchIsDefaultWitness ==
    /\ GetReturned /\ searxng_locale = Hy(en, World)
    /\ ReqLocale.territory = World /\ Langs(World) = {}
    /\ engine_locales # EmptyDict
    /\ default # NoneVal
    /\ result = default

\* C10 (as claimed): the result does not depend on the order in which the
\* catalog iterates: it is the result for the catalog in ascending order.
CatalogOrderIndependence ==
    GetReturned =>
        result = get_engine_locale(searxng_locale, engine_locales, default, TERRITORIES)

----------------------------------------------------------------------------
(* build_engine_locales *)

\* the call of build_engine_locales has returned a dict
BuildReturned == pc = "return" /\ op = "build_engine_locales" /\ built.exc = ""

\* the keys the tag is to give, by the rule of the docstring
KeysOfLocale(locale) ==
    IF locale.exc # "" THEN {}
    ELSE IF locale.territory # NoneVal
    THEN {locale.language \o HYPHEN \o locale.territory} \cup
         (IF locale.script # NoneVal
          THEN {locale.language \o UNDERSCORE \o locale.script} ELSE {})
    ELSE {IF locale.script # NoneVal
          THEN locale.language \o UNDERSCORE \o locale.script ELSE locale.language}

KeysOfTag(tag) == KeysOfLocale(get_locale(tag))

\* the places of the list whose tag gives the key
PlacesOfKey(k) == {i \in 1..Len(locale_tag_list) : k \in KeysOfTag(locale_tag_list[i])}

DocList == <<en, Hy(en, US), zh, Hy(zh, CN), Hy(zh, TW)>>

\* C11: the dict build_engine_locales returns has exactly the keys region_tag
\* (and language_tag when there is a script) of the tags with a territory and
\* language_tag of the tags without, each with a tag of the list that gives
\* the key; the list en, en-US, zh, zh-CN, zh-TW gives the seven keys of the
\* docstring with zh_Hans for zh-CN and zh_Hant for zh-TW.
BuilderMappingRule ==
    BuildReturned =>
        /\ DOMAIN built.map = UNION {KeysOfTag(t) : t \in ElementsOf(locale_tag_list)}
        /\ \A k \in DOMAIN built.map :
              \E i \in PlacesOfKey(k) : built.map[k] = locale_tag_list[i]
        /\ locale_tag_list = DocList =>
              /\ DOMAIN built.map = {en, Hy(en, US), zh, Hy(zh, CN), Us(zh, Hans),
                                     Hy(zh, TW), Us(zh, Hant)}
              /\ built.map[Us(zh, Hans)] = Hy(zh, CN)
              /\ built.map[Us(zh, Hant)] = Hy(zh, TW)

\* C11 witness: the list of the docstring was built
BuilderMappingRuleWitness ==
    /\ BuildReturned /\ locale_tag_list = DocList
    /\ Cardinality(DOMAIN built.map) = 7
    /\ built.map[Us(zh, Hant)] = Hy(zh, TW)

\* C12: a key that several tags of the list give holds the last of them.
LastWriteWins ==
    BuildReturned =>
        \A k \in DOMAIN built.map :
            \E i \in PlacesOfKey(k) :
                /\ built.map[k] = locale_tag_list[i]
                /\ \A j \in PlacesOfKey(k) : j <= i

\* C12 witness: zh-TW, with territory and script, and after it zh-Hant, with
\* the script alone, both give the key zh_Hant, which holds zh-Hant
LastWriteWinsWitness ==
    /\ BuildReturned
    /\ \E i, j \in 1..Len(locale_tag_list) :
          /\ i < j
          /\ locale_tag_list[i] = Hy(zh, TW)
          /\ locale_tag_list[j] = Hy(zh, Hant)
    /\ KeysOfTag(Hy(zh, TW)) \cap KeysOfTag(Hy(zh, Hant)) = {Us(zh, Hant)}
    /\ built.map[Us(zh, Hant)] = Hy(zh, Hant)
    /\ built.map[Hy(zh, TW)] = Hy(zh, TW)

\* the tags of the list that get_locale makes a locale of
ParsableTags == SelectSeq(locale_tag_list, LAMBDA t : get_locale(t).exc = "")

\* C13 (as claimed): build_engine_locales returns a dict for every list, and
\* the dict is the one of the list without the tags that cannot be parsed.
BuilderNeverAborts ==
    pc = "return" /\ op = "build_engine_locales" =>
        /\ built.exc = ""
        /\ built = build_engine_locales(ParsableTags)

----------------------------------------------------------------------------
(* match_locale *)

\* the call of match_locale has returned or raised
MatchReturned == pc = "return" /\ op = "match_locale"

NothingBuilt == [exc |-> "", map |-> EmptyDict]

\* the entry locale is neither None nor ''
EntryGiven == searxng_locale # NoneVal /\ searxng_locale # <<>>

\* C14: for None and for '' match_locale returns the fallback, whatever the
\* tag list, and builds no dict.
EmptyEntryIsFallback ==
    MatchReturned /\ ~EntryGiven =>
        result = default /\ built = NothingBuilt

\* C14 witness: '' was requested with a list that holds a tag babel does not
\* parse, and a fallback that is not None
EmptyEntryIsFallbackWitness ==
    /\ MatchReturned /\ searxng_locale = <<>>
    /\ Us(zh, Hant) \in ElementsOf(locale_tag_list)
    /\ default # NoneVal
    /\ result = default

\* C15 (as claimed): for an entry locale that get_locale makes no locale of,
\* malformed or unknown, match_locale returns the fallback and does not raise.
UnparsableEntryIsFallback ==
    (MatchReturned /\ EntryGiven /\ get_locale(searxng_locale).exc # "")
        => ~IsRaise(result) /\ result = default

\* the tags match_locale is to drop
Sentinels ==
    { <<"a","l","l">>, <<"a","u","t","o">>,
      <<"d","v">>, <<"o","c">>, <<"s","z","l">>, <<"p","a","p">> }

WithoutSentinels(tag_list) == SelectSeq(tag_list, LAMBDA t : t \notin Sentinels)

\* C16: match_locale gives what it gives for the list without 'all', 'auto',
\* dv, oc, szl and pap, and returns none of these unless it is the fallback.
SentinelsIgnored ==
    MatchReturned =>
        /\ result = match_locale(searxng_locale, WithoutSentinels(locale_tag_list),
                                 default, catalog_order)
        /\ result \in Sentinels => result = default

\* C16 witness: oc, which the catalog knows, was requested with a list that
\* holds it, and the fallback came back
SentinelsIgnoredWitness ==
    /\ MatchReturned /\ searxng_locale = oc
    /\ get_locale(oc).exc = ""
    /\ oc \in ElementsOf(locale_tag_list)
    /\ build_engine_locales(WithoutSentinels(locale_tag_list)).exc = ""
    /\ default # oc
    /\ result = default

\* the string match_locale is to pass on: region_tag of the entry's locale
\* when it has a territory, else language_tag
NormalizedEntry(locale) ==
    IF locale.territory # NoneVal
    THEN locale.language \o HYPHEN \o locale.territory
    ELSE IF locale.script # NoneVal
    THEN locale.language \o UNDERSCORE \o locale.script
    ELSE locale.language

\* get_engine_locale of the dict, or the exception build_engine_locales raised
EngineLocaleOfBuilt(normalized, b) ==
    IF b.exc # "" THEN ValueError
    ELSE get_engine_locale(normalized, b.map, default, catalog_order)

\* C17: for an entry locale that parses, match_locale is get_engine_locale of
\* the normalized entry, the dict built of the filtered list, and the fallback.
MatchIsComposition ==
    (MatchReturned /\ EntryGiven /\ get_locale(searxng_locale).exc = "") =>
        result = EngineLocaleOfBuilt(NormalizedEntry(get_locale(searxng_locale)),
                                     build_engine_locales(WithoutSentinels(locale_tag_list)))

\* C17 witness: ZH-tw, normalized to zh-TW, was requested with a list that
\* holds zh-TW and builds without error
MatchIsCompositionWitness ==
    /\ MatchReturned /\ searxng_locale = Hy(<<"Z","H">>, <<"t","w">>)
    /\ NormalizedEntry(get_locale(searxng_locale)) = Hy(zh, TW)
    /\ Hy(zh, TW) \in ElementsOf(locale_tag_list)
    /\ built.exc = "" /\ built # NothingBuilt
    /\ result = Hy(zh, TW)

----------------------------------------------------------------------------
(* region_tag, language_tag, get_locale *)

\* the locale region_tag and language_tag were called with
TagLocale == get_locale(searxng_locale)

\* C18: region_tag gives "<language>-<TERRITORY>" for a locale with a
\* territory and raises for a locale without.
RegionTagOrRaise ==
    pc = "return" /\ op = "region_tag" =>
        IF TagLocale.territory # NoneVal
        THEN result = TagLocale.language \o HYPHEN \o TagLocale.territory
        ELSE IsRaise(result)

\* C18 witness: the locale of zh-Hant has a script and no territory
RegionTagOrRaiseWitness ==
    /\ pc = "return" /\ op = "region_tag"
    /\ searxng_locale = Hy(zh, Hant)
    /\ TagLocale.exc = "" /\ TagLocale.territory = NoneVal
    /\ IsRaise(result)

\* C19: language_tag does not raise and gives "<language>", or
\* "<language>_<Script>" for a locale with a script; no territory in it.
LanguageTagNoTerritory ==
    pc = "return" /\ op = "language_tag" =>
        /\ ~IsRaise(result)
        /\ result = IF TagLocale.script # NoneVal
                    THEN TagLocale.language \o UNDERSCORE \o TagLocale.script
                    ELSE TagLocale.language
        /\ ~Contains(result, "-")
        /\ TagLocale.territory # NoneVal =>
              \A i \in 1..Len(result) :
                  SubSeq(result, i, Len(result)) # TagLocale.territory

\* C19 witness: the locale of zh-TW has the script Hant and the territory TW
LanguageTagNoTerritoryWitness ==
    /\ pc = "return" /\ op = "language_tag"
    /\ searxng_locale = Hy(zh, TW)
    /\ TagLocale.script = Hant /\ TagLocale.territory = TW
    /\ result = Us(zh, Hant)

\* the tag is "<language>_<Script>": letters, an underscore, four letters
IsUnderscoreScriptForm(tag) ==
    /\ Len(tag) > 5
    /\ tag[Len(tag) - 4] = "_"
    /\ IsAlpha(SubSeq(tag, 1, Len(tag) - 5))
    /\ IsAlpha(SubSeq(tag, Len(tag) - 3, Len(tag)))

\* C20 (as claimed): get_locale makes of "<language>_<Script>" the locale it
\* makes of "<language>-<Script>".
UnderscoreFormAccepted ==
    (pc = "return" /\ op = "get_locale" /\ IsUnderscoreScriptForm(searxng_locale)) =>
        /\ ~IsRaise(result)
        /\ result # NoneVal
        /\ result = LocaleOrNone(get_locale(Replace(searxng_locale, "_", "-")))

----------------------------------------------------------------------------
(* Concurrent calls *)

\* what the call gives when it runs alone
Alone(c) ==
    IF c.op = "get_engine_locale"
    THEN get_engine_locale(c.arg, engine_locales, c.fallback, catalog_order)
    ELSE IF c.op = "match_locale"
    THEN match_locale(c.arg, locale_tag_list, c.fallback, catalog_order)
    ELSE NoneVal

\* the call is done with what it gives alone; for build_engine_locales that
\* is the dict of the list
DoneAsAlone(c) ==
    /\ c.result = Alone(c)
    /\ c.op = "build_engine_locales" => c.engine_locales = build_engine_locales(locale_tag_list)

\* C21: no step of a call writes the catalog, the dict or the tag list the
\* workers share, and under every interleaving a call that is done has given
\* what it gives alone.
NoInterference ==
    [][/\ UNCHANGED <<catalog_order, engine_locales, locale_tag_list>>
       /\ \A w \in Workers : calls'[w].pc = "done" => DoneAsAlone(calls'[w])]_vars

\* C21 witness: a call of match_locale is done while a call of
\* build_engine_locales on the same list is in the middle of its loop
NoInterferenceWitness ==
    /\ op = "workers"
    /\ \E v, w \in Workers :
          /\ calls[v].op = "match_locale" /\ calls[v].pc = "done"
          /\ calls[v].result = Hy(zh, Hant)
          /\ calls[w].op = "build_engine_locales" /\ calls[w].pc = "build"
          /\ calls[w].engine_locales.map # EmptyDict
          /\ calls[w].tag_list # <<>>

----------------------------------------------------------------------------
(* The steps of get_engine_locale *)

DirectHit == searxng_locale \in DOMAIN engine_locales

LanguageTagIsKey == language_tag(ReqLocale) \in DOMAIN engine_locales

SelfTerritoryIsHit ==
    SelfKey \in DOMAIN engine_locales /\ HasStatus(SelfTerritory, language_tag(ReqLocale))

OfficialWithKey ==
    {e \in TERRITORY_LANGUAGES :
        /\ e.territory = ReqLocale.territory
        /\ e.official_status \in {"official", "de_facto_official"}
        /\ (e.language \o HYPHEN \o e.territory) \in DOMAIN engine_locales}

\* the order in which the catalog gives the official languages of a
\* territory: by share, then by language code, both descending
OfficialBefore(a, b) ==
    \/ a.population_percent > b.population_percent
    \/ a.population_percent = b.population_percent /\ StrLess(b.language, a.language)

\* C23: when the first two steps give no hit and the requested locale has a
\* territory T, the result of the step by territory is the value of the key
\* "<L>-<T>" of the first official or de facto official language L of T, in
\* the order of the catalog, whose key the dict holds.
TerritoryFirstOfficial ==
    (/\ GetReturned /\ ReqParsed /\ ~DirectHit /\ ~LanguageTagIsKey
     /\ ReqLocale.territory # NoneVal
     /\ OfficialWithKey # {})
        => \E e \in OfficialWithKey :
              /\ result = engine_locales[e.language \o HYPHEN \o ReqLocale.territory]
              /\ \A o \in OfficialWithKey : o = e \/ OfficialBefore(e, o)

\* C23 witness: en-BE requested of a dict with the keys fr-BE and nl-BE; nl
\* has the larger share in BE
TerritoryFirstOfficialWitness ==
    /\ GetReturned /\ searxng_locale = Hy(en, BE)
    /\ ReqLocale.territory = BE
    /\ DOMAIN engine_locales = {Hy(fr, BE), Hy(nl, BE)}
    /\ Cardinality(OfficialWithKey) = 2
    /\ result = engine_locales[Hy(nl, BE)]

\* the keys "<language>-<T>" of the dict for the territories T where the
\* requested language, without its script, has a status
LanguageTerritoryKeys ==
    {k \in DOMAIN engine_locales :
        \E e \in TERRITORY_LANGUAGES :
            /\ e.language = ReqLocale.language
            /\ e.official_status # "None"
            /\ k = ReqLocale.language \o HYPHEN \o e.territory}

----------------------------------------------------------------------------
(* The keys of a built dict *)

\* "<language>-<TERRITORY>", "<language>" or "<language>_<Script>": language
\* in lower case, territory in upper case or digits, script in title case
IsCanonicalKey(k) ==
    IF Contains(k, "-")
    THEN LET parts == Split(k, "-")
         IN  /\ Len(parts) = 2
             /\ IsAlpha(parts[1]) /\ parts[1] = Lower(parts[1])
             /\ IsDigit(parts[2]) \/ (IsAlpha(parts[2]) /\ parts[2] = Upper(parts[2]))
    ELSE LET parts == Split(k, "_")
         IN  /\ Len(parts) \in {1, 2}
             /\ IsAlpha(parts[1]) /\ parts[1] = Lower(parts[1])
             /\ Len(parts) = 2 =>
                   /\ Len(parts[2]) = 4 /\ IsAlpha(parts[2])
                   /\ parts[2] = Title(parts[2])

\* region_tag and language_tag of the locale, where they are defined
TagsOfLocale(locale) ==
    {language_tag(locale)} \cup
    (IF locale.territory # NoneVal THEN {region_tag(locale)} ELSE {})

\* C25: every key of a dict build_engine_locales returns is region_tag or
\* language_tag of the locale of a tag of the list and has the canonical
\* form; a tag that is not of that form is no key; every value is a tag of
\* the list.
CanonicalKeys ==
    BuildReturned =>
        /\ \A k \in DOMAIN built.map :
              /\ \E t \in ElementsOf(locale_tag_list) :
                    get_locale(t).exc = "" /\ k \in TagsOfLocale(get_locale(t))
              /\ IsCanonicalKey(k)
              /\ built.map[k] \in ElementsOf(locale_tag_list)
        /\ \A t \in ElementsOf(locale_tag_list) :
              ~IsCanonicalKey(t) => t \notin DOMAIN built.map

\* C25 witness: zh-Hant is in the list; its key is zh_Hant, and zh-Hant as
\* it was passed is no key
CanonicalKeysWitness ==
    /\ BuildReturned
    /\ Hy(zh, Hant) \in ElementsOf(locale_tag_list)
    /\ ~IsCanonicalKey(Hy(zh, Hant))
    /\ Us(zh, Hant) \in DOMAIN built.map
    /\ Hy(zh, Hant) \notin DOMAIN built.map
    /\ Hy(zh, Hant) \in Range(built.map)

----------------------------------------------------------------------------
(* The parse step of get_engine_locale *)

\* the requested string is no key and babel knows no locale for it
WholeUnknown ==
    /\ ~DirectHit
    /\ LocaleParse(searxng_locale, "-").exc = "UnknownLocaleError"

\* the part of the requested string before its first '-'
FirstPart == Split(searxng_locale, "-")[1]

\* C26 (as claimed): when the requested string is no key and babel knows no
\* locale for the whole of it, the default is returned.
ParseFailureIsDefault ==
    GetReturned /\ WholeUnknown => result = default

\* C26 (amended): ... the result is that for the part before the first '-';
\* the default is returned when babel knows no locale for that part either.
ParseFallsBackToFirstPart ==
    GetReturned /\ WholeUnknown =>
        /\ result = get_engine_locale(FirstPart, engine_locales, default, catalog_order)
        /\ LocaleParse(FirstPart, "_").exc = "UnknownLocaleError" => result = default

\* C26 witness: en-XX requested of a dict with the key en-US gives en-US's
\* value, the match for en
ParseFallsBackToFirstPartWitness ==
    /\ GetReturned /\ searxng_locale = Hy(en, XX)
    /\ WholeUnknown /\ FirstPart = en
    /\ Hy(en, US) \in DOMAIN engine_locales
    /\ result = engine_locales[Hy(en, US)]
    /\ result # default

----------------------------------------------------------------------------
(* match_locale with a tag of its list *)

\* the list match_locale builds the dict of
FilteredList == WithoutSentinels(locale_tag_list)

\* the entry is a tag of the filtered list that parses, and no tag of the
\* list makes the builder raise
EntryIsMember ==
    /\ EntryGiven
    /\ searxng_locale \in ElementsOf(FilteredList)
    /\ get_locale(searxng_locale).exc = ""
    /\ \A t \in ElementsOf(FilteredList) : get_locale(t).exc # "ValueError"

\* the places of the filtered list whose tag gives the key the entry is
\* normalized to
PlacesOfEntry ==
    {i \in 1..Len(FilteredList) :
        NormalizedEntry(get_locale(searxng_locale)) \in KeysOfTag(FilteredList[i])}

\* C27: match_locale of a tag of its list that parses and is not filtered out
\* returns the last tag of the filtered list that gives the same key, the
\* tag itself when no later one does; not the fallback.  (Lists with a tag
\* that makes the builder raise are C13's case.)
ExactMemberWins ==
    MatchReturned /\ EntryIsMember =>
        /\ PlacesOfEntry # {}
        /\ \E i \in PlacesOfEntry :
              /\ result = FilteredList[i]
              /\ \A j \in PlacesOfEntry : j <= i
        /\ result \in ElementsOf(FilteredList)

\* C27 witness: zh-Hant requested with a list where zh-TW, which gives the
\* key zh_Hant too, comes after zh-Hant: zh-TW comes back
ExactMemberWinsWitness ==
    /\ MatchReturned /\ EntryIsMember
    /\ searxng_locale = Hy(zh, Hant)
    /\ \E i, j \in 1..Len(FilteredList) :
          i < j /\ FilteredList[i] = Hy(zh, Hant) /\ FilteredList[j] = Hy(zh, TW)
    /\ default # Hy(zh, TW)
    /\ result = Hy(zh, TW)

----------------------------------------------------------------------------
(* EnumStringSetting *)

\* C28: the value of an EnumStringSetting that was constructed is one of its
\* choices, before and after every call of parse; a call of parse with data
\* that is none of the choices raises ValidationException and leaves the
\* value as it was.
EnumValueInChoices ==
    [][op = "EnumStringSetting" =>
         /\ self.exc = "" => self.value \in self.choices
         /\ self'.exc = "" => self'.value \in self'.choices
         /\ (args' # args \/ self' # self \/ result' # result) =>
               (args'[1] \notin self.choices =>
                    result' = ValidationException /\ self'.value = self.value)]_vars

\* C28 witness: parse was called with data that is none of the choices after
\* an earlier call had changed the value
EnumValueInChoicesWitness ==
    /\ op = "EnumStringSetting" /\ pc = "parse" /\ self.exc = ""
    /\ args # <<>> /\ args[1] \notin self.choices
    /\ result = ValidationException
    /\ self.value # default
    /\ self.value \in self.choices

----------------------------------------------------------------------------
(* Preferences *)

\* the key-value settings that are locked
LockedSettings ==
    {i \in 1..Len(self.key_value_settings) : self.key_value_settings[i].v.locked}

\* C29: a key-value setting that is locked keeps the value it was constructed
\* with through every sequence of calls of parse_dict and parse_form.
LockedKeepsDefault ==
    op = "Preferences" =>
        \A i \in LockedSettings :
            self.key_value_settings[i].v.value = default.key_value_settings[i].v.value

\* C29, the part that holds: parse_dict leaves every locked key-value
\* setting as it is
ParseDictKeepsLocked ==
    [][op = "Preferences" /\ pc' = "parse_dict" =>
          \A i \in LockedSettings : self'.key_value_settings[i] = self.key_value_settings[i]]_vars

\* C29, the part that holds: parse_dict was called with an item for a locked
\* setting
ParseDictKeepsLockedWitness ==
    /\ op = "Preferences" /\ pc = "parse_dict"
    /\ \E i \in LockedSettings : HasKey(args[1], self.key_value_settings[i].k)

----------------------------------------------------------------------------
(* BooleanChoices *)

\* the names whose value is v now and was not v at construction
ChangedTo(v) ==
    {self.choices[i].k : i \in {j \in 1..Len(self.choices) :
        self.choices[j].v = v /\ self.default_choices[j].v # v}}

\* the names a cookie lists
CookieNames(cookie) == IF cookie = <<>> THEN {} ELSE ElementsOf(Split(cookie, ","))

\* C30: the two cookies save writes list exactly the names whose value
\* differs from the default, the disabled ones in the first and the enabled
\* ones in the second, and parse_cookie with the two cookies on a fresh object
\* of the same defaults yields the choices of the object saved.
CookieRoundTrip ==
    (op = "BooleanChoices" /\ pc = "save") =>
        /\ CookieNames(args[1].disabled) = ChangedTo(FALSE)
        /\ CookieNames(args[1].enabled) = ChangedTo(TRUE)
        /\ BooleanChoicesParseCookie(
               BooleanChoicesInit(self.name, self.default_choices, self.locked),
               args[1].disabled, args[1].enabled).choices = self.choices

\* C30 witness: an object saved with two names disabled and one enabled
\* against the defaults
CookieRoundTripWitness ==
    /\ op = "BooleanChoices" /\ pc = "save"
    /\ Cardinality(ChangedTo(FALSE)) = 2
    /\ Cardinality(ChangedTo(TRUE)) = 1

====
